---- MODULE Spec2Model ----
(***************************************************************************)
(* Model of bisheng/interface/initialize/loading.py: the node instantiation *)
(* engine (parameter normalisation, category dispatch, builder strategies). *)
(*                                                                          *)
(* Python values are tagged records [t |-> tag, v |-> payload]; a Python    *)
(* str is a sequence of one-character strings, a dict is a function from    *)
(* keys to values, an opaque built object is a handle name.                 *)
(***************************************************************************)
EXTENDS Integers, Sequences, FiniteSets, TLC

VARIABLES pc, env, args, params, result

vars == <<pc, env, args, params, result>>

----------------------------------------------------------------------------
(* Python values *)

Str(s) == [t |-> "str", v |-> s]
Num(n) == [t |-> "int", v |-> n]
List(s) == [t |-> "list", v |-> s]
Tuple(s) == [t |-> "tuple", v |-> s]
SetOf(S) == [t |-> "set", v |-> S]
Dict(f) == [t |-> "dict", v |-> f]
Obj(h) == [t |-> "obj", v |-> h]
PyNone == [t |-> "none", v |-> 0]
Absent == [t |-> "absent", v |-> 0]

EmptyDict == <<>>

Put(d, k, x) == [y \in (DOMAIN d) \cup {k} |-> IF y = k THEN x ELSE d[y]]
Remove(d, k) == [y \in (DOMAIN d) \ {k} |-> d[y]]
Get(d, k, default) == IF k \in DOMAIN d THEN d[k] ELSE default

\* a dict literal given as a record whose Absent fields are left out
FromOptions(rec) == [k \in {x \in DOMAIN rec : rec[x] # Absent} |-> rec[k]]

Range(s) == {s[i] : i \in DOMAIN s}

\* outcome of a step that works on the params dict in place
Ok(p) == [ok |-> TRUE, error |-> "", params |-> p]
Err(e, p) == [ok |-> FALSE, error |-> e, params |-> p]

----------------------------------------------------------------------------
(* json.loads, on texts over the alphabet  " 1 2 3 a b [ ] { } ,            *)

Quote == "\""
Digits == {"1", "2", "3"}

DigitVal(c) == CASE c = "1" -> 1 [] c = "2" -> 2 [] c = "3" -> 3 [] OTHER -> 0

RECURSIVE DigitsValue(_)
DigitsValue(ds) ==
    IF ds = <<>> THEN 0
    ELSE 10 * DigitsValue(SubSeq(ds, 1, Len(ds) - 1)) + DigitVal(ds[Len(ds)])

\* position of the closing quote at or after i, 0 when there is none
RECURSIVE ScanString(_, _)
ScanString(text, i) ==
    IF i > Len(text) THEN 0
    ELSE IF text[i] = Quote THEN i
    ELSE ScanString(text, i + 1)

\* first position at or after i that holds no digit
RECURSIVE ScanDigits(_, _)
ScanDigits(text, i) ==
    IF i > Len(text) THEN i
    ELSE IF text[i] \in Digits THEN ScanDigits(text, i + 1)
    ELSE i

ParseFail == [ok |-> FALSE, val |-> PyNone, next |-> 0]
Parsed(x, n) == [ok |-> TRUE, val |-> x, next |-> n]

RECURSIVE ParseValue(_, _)
RECURSIVE ParseElems(_, _, _)

ParseValue(text, i) ==
    IF i > Len(text) THEN ParseFail
    ELSE IF text[i] = Quote THEN
        LET j == ScanString(text, i + 1)
        IN  IF j = 0 THEN ParseFail ELSE Parsed(Str(SubSeq(text, i + 1, j - 1)), j + 1)
    ELSE IF text[i] \in Digits THEN
        LET j == ScanDigits(text, i)
        IN  Parsed(Num(DigitsValue(SubSeq(text, i, j - 1))), j)
    ELSE IF text[i] = "{" THEN
        IF i + 1 <= Len(text) /\ text[i + 1] = "}"
        THEN Parsed(Dict(EmptyDict), i + 2) ELSE ParseFail
    ELSE IF text[i] = "[" THEN
        IF i + 1 <= Len(text) /\ text[i + 1] = "]"
        THEN Parsed(List(<<>>), i + 2) ELSE ParseElems(text, i + 1, <<>>)
    ELSE ParseFail

ParseElems(text, i, acc) ==
    LET r == ParseValue(text, i)
    IN  IF ~r.ok \/ r.next > Len(text) THEN ParseFail
        ELSE IF text[r.next] = "," THEN ParseElems(text, r.next + 1, Append(acc, r.val))
        ELSE IF text[r.next] = "]" THEN Parsed(List(Append(acc, r.val)), r.next + 1)
        ELSE ParseFail

\* json.loads(text): [ok, val]; ok = FALSE is json.JSONDecodeError
JsonLoads(text) ==
    LET r == ParseValue(text, 1)
    IN  IF r.ok /\ r.next = Len(text) + 1 THEN [ok |-> TRUE, val |-> r.val]
        ELSE [ok |-> FALSE, val |-> PyNone]

----------------------------------------------------------------------------
(* Parameter normaliser *)

NODE_ID_DICT == "node_id_dict"
PRESET_QUESTION == "preset_question"

\* insertion order of the keys of a params dict
KeyOrder == <<"allowed_special", "disallowed_special", "input_node", "model_kwargs",
              "headers", "config", NODE_ID_DICT>>

\* 'kwargs' in key or 'config' in key, over the keys of KeyOrder
HasKwargsOrConfig(key) == key \in {"model_kwargs", "config"}

KeysInOrder(p) == SelectSeq(KeyOrder, LAMBDA k : k \in DOMAIN p)

\* set(x): [ok, val]; ok = FALSE is TypeError
PySet(x) ==
    CASE x.t = "list" ->
           IF \E i \in DOMAIN x.v : x.v[i].t \in {"list", "dict", "set"}
           THEN [ok |-> FALSE, val |-> PyNone]
           ELSE [ok |-> TRUE, val |-> SetOf(Range(x.v))]
      [] x.t = "str" -> [ok |-> TRUE, val |-> SetOf({Str(<<x.v[i]>>) : i \in DOMAIN x.v})]
      [] x.t = "set" -> [ok |-> TRUE, val |-> x]
      [] OTHER -> [ok |-> FALSE, val |-> PyNone]

ToSet(p, key) ==
    IF key \notin DOMAIN p THEN Ok(p)
    ELSE LET s == PySet(p[key])
         IN  IF s.ok THEN Ok(Put(p, key, s.val)) ELSE Err("TypeError", p)

convert_params_to_sets(p) ==
    LET a == ToSet(p, "allowed_special")
    IN  IF ~a.ok THEN a
        ELSE LET d == ToSet(a.params, "disallowed_special")
             IN  IF ~d.ok THEN d ELSE Ok(Remove(d.params, "input_node"))

\* a kwargs/config text that does not decode stays as it is
RECURSIVE DecodeKeysLenient(_, _)
DecodeKeysLenient(p, keys) ==
    IF keys = <<>> THEN Ok(p)
    ELSE LET key == Head(keys)
         IN  IF p[key].t = "str" /\ JsonLoads(p[key].v).ok
             THEN DecodeKeysLenient(Put(p, key, JsonLoads(p[key].v).val), Tail(keys))
             ELSE DecodeKeysLenient(p, Tail(keys))

RECURSIVE DecodeKeys(_, _)
DecodeKeys(p, keys) ==
    IF keys = <<>> THEN Ok(p)
    ELSE LET key == Head(keys)
         IN  IF p[key].t = "str"
             THEN LET r == JsonLoads(p[key].v)
                  IN  IF r.ok THEN DecodeKeys(Put(p, key, r.val), Tail(keys))
                      ELSE Err("JSONDecodeError", p)
             ELSE DecodeKeys(p, Tail(keys))

\* json.loads on every kwargs/config value, text or not
RECURSIVE DecodeKeysUnchecked(_, _)
DecodeKeysUnchecked(p, keys) ==
    IF keys = <<>> THEN Ok(p)
    ELSE LET key == Head(keys)
         IN  IF p[key].t # "str" THEN Err("TypeError", p)
             ELSE LET r == JsonLoads(p[key].v)
                  IN  IF r.ok THEN DecodeKeysUnchecked(Put(p, key, r.val), Tail(keys))
                      ELSE Err("JSONDecodeError", p)

convert_kwargs_unchecked(p) ==
    DecodeKeysUnchecked(p, SelectSeq(KeysInOrder(p), HasKwargsOrConfig))

convert_kwargs(p) == DecodeKeys(p, SelectSeq(KeysInOrder(p), HasKwargsOrConfig))

\* params.pop(NODE_ID_DICT)
PopNodeIdDict(p) ==
    IF NODE_ID_DICT \in DOMAIN p
    THEN [ok |-> TRUE, error |-> "", params |-> Remove(p, NODE_ID_DICT), id_dict |-> p[NODE_ID_DICT]]
    ELSE [ok |-> FALSE, error |-> "KeyError", params |-> p, id_dict |-> PyNone]

\* the first three statements of instantiate_class
Normalize(p) ==
    LET s == convert_params_to_sets(p)
    IN  IF ~s.ok THEN s @@ [id_dict |-> PyNone]
        ELSE LET k == convert_kwargs(s.params)
             IN  IF ~k.ok THEN k @@ [id_dict |-> PyNone]
                 ELSE PopNodeIdDict(k.params)

----------------------------------------------------------------------------
(* Construction: what a strategy hands to a class or to one of its methods *)

\* a class handle: its name and the attributes getattr can find on it
\* fields: the keyword names a validating class accepts ({} when it accepts
\* any); raises: the message of the error its construction raises ("" when it
\* builds)
ClassWith(name, methods, fields, raises) ==
    [name |-> name, methods |-> methods, fields |-> fields, raises |-> raises]

Class(name, methods) == ClassWith(name, methods, {}, "")

\* an opaque runtime object: a name, the attributes hasattr finds, input_keys
Object(name, attrs, keys) == Obj([name |-> name, attrs |-> attrs, input_keys |-> keys])

HasAttr(x, attr) == x.t = "obj" /\ attr \in x.v.attrs

Call(fn, cls, method, kwargs) == [fn |-> fn, cls |-> cls, method |-> method, kwargs |-> kwargs]

\* outcome of a strategy: the params dict as it leaves it, the construction
\* calls it made in order, and the object it returns
Built(p, calls, value) ==
    [ok |-> TRUE, error |-> "", cause |-> "", params |-> p, calls |-> calls, value |-> value]
Failed(e, p, calls) ==
    [ok |-> FALSE, error |-> e, cause |-> "", params |-> p, calls |-> calls, value |-> PyNone]

\* class_object(**params)
Construct(class_object, p) ==
    LET c == Call("class_object", class_object.name, "__init__", p)
    IN  IF class_object.raises # "" THEN Failed(class_object.raises, p, <<c>>)
        ELSE Built(p, <<c>>, Obj(c))

\* getattr(class_object, method)(**params)
ConstructWith(class_object, method, p) ==
    LET c == Call("class_method", class_object.name, method, p)
    IN  IF class_object.raises # "" THEN Failed(class_object.raises, p, <<c>>)
        ELSE Built(p, <<c>>, Obj(c))

MethodNotFound == "ValueError: Method not found"
ChainOrderError == "Exception: chain_order"

\* the `if node_type in X_creator.from_method_nodes:` block of a strategy that
\* raises when the class lacks the method; table is X_creator.from_method_nodes
FromMethodOrDefault(table, node_type, class_object, p) ==
    IF node_type \in DOMAIN table
    THEN IF table[node_type] \in class_object.methods
         THEN ConstructWith(class_object, table[node_type], p)
         ELSE Failed(MethodNotFound, p, <<>>)
    ELSE Construct(class_object, p)

----------------------------------------------------------------------------
(* Chain strategy *)

\* VectorStoreFilterRetriever(vectorstore=..., access_url=...)
FilterRetriever(store, url, user_name) ==
    [t |-> "filter_retriever", v |-> [vectorstore |-> store, access_url |-> url,
                                      username |-> user_name]]

\* store.as_retriever()
AsRetriever(store) == [t |-> "retriever", v |-> [vectorstore |-> store]]

\* lines 325-336
ChainRetriever(p, e) ==
    IF "retriever" \notin DOMAIN p THEN p
    ELSE LET user_name == Get(p, "user_name", Str(<<>>))
             q == Remove(p, "user_name")
         IN  IF ~HasAttr(q["retriever"], "as_retriever") THEN q
             ELSE IF e.file_access # ""
                  THEN Put(q, "retriever", FilterRetriever(q["retriever"], e.file_access, user_name))
                  ELSE Put(q, "retriever", AsRetriever(q["retriever"]))

\* iterating a value: [ok, val]; ok = FALSE is TypeError
Iterate(x) ==
    CASE x.t \in {"list", "tuple"} -> [ok |-> TRUE, val |-> x.v]
      [] x.t = "str" -> [ok |-> TRUE, val |-> [i \in DOMAIN x.v |-> Str(<<x.v[i]>>)]]
      [] x.t = "dict" -> [ok |-> TRUE, val |-> <<>>]
      [] OTHER -> [ok |-> FALSE, val |-> <<>>]

\* {id: index for index, id in enumerate(ids)}.get(id): the last position of
\* id in ids, 0 standing for None
IndexOfId(ids, id) ==
    LET at == {i \in DOMAIN ids : ids[i] = id}
    IN  IF at = {} THEN 0 ELSE CHOOSE i \in at : \A j \in at : j <= i

\* [chains_origin[chains_dict.get(id)] for id in chain_order]
RECURSIVE PickChains(_, _, _, _)
PickChains(order, ids, chains_origin, acc) ==
    IF order = <<>> THEN [ok |-> TRUE, error |-> "", val |-> acc]
    ELSE LET id == Head(order)
             at == IndexOfId(ids, id)
         IN  IF id.t \in {"list", "dict", "set"} \/ at = 0
                \/ chains_origin.t \notin {"list", "tuple"}
             THEN [ok |-> FALSE, error |-> "TypeError", val |-> acc]
             ELSE IF at > Len(chains_origin.v)
             THEN [ok |-> FALSE, error |-> "IndexError", val |-> acc]
             ELSE PickChains(Tail(order), ids, chains_origin, Append(acc, chains_origin.v[at]))

\* the outcome of reading chain_order: the parse result r and the params q
\* left by the pop
OrderRead(r, q) == [ok |-> r.ok, val |-> r.val, params |-> q]

\* a missing chain_order read as the empty order
LoadChainOrderOrEmpty(p) ==
    IF "chain_order" \notin DOMAIN p THEN [ok |-> TRUE, val |-> List(<<>>), params |-> p]
    ELSE OrderRead(IF p["chain_order"].t = "str" THEN JsonLoads(p["chain_order"].v)
                   ELSE [ok |-> FALSE, val |-> PyNone],
                   Remove(p, "chain_order"))

\* lines 341-344: json.loads(params.pop('chain_order')) inside try/except
LoadChainOrder(p) ==
    IF "chain_order" \notin DOMAIN p THEN [ok |-> FALSE, val |-> PyNone, params |-> p]
    ELSE OrderRead(IF p["chain_order"].t = "str" THEN JsonLoads(p["chain_order"].v)
                   ELSE [ok |-> FALSE, val |-> PyNone],
                   Remove(p, "chain_order"))

\* line 347: params['chains'] = the picked sub-chains r, or the error of the pick
StoreChains(r, q) == IF r.ok THEN Ok(Put(q, "chains", List(r.val))) ELSE Err(r.error, q)

\* the pick is made but the sub-chains stay in arrival order
KeepChains(r, q) == IF r.ok THEN Ok(q) ELSE Err(r.error, q)

\* the order o is validated but the sub-chains stay in arrival order
ChainsAsArrived(o, id_dict) ==
    IF ~o.ok THEN Err(ChainOrderError, o.params)
    ELSE IF "chains" \notin DOMAIN id_dict THEN Err("TypeError", o.params)
    ELSE IF ~Iterate(o.val).ok THEN Err("TypeError", o.params)
    ELSE KeepChains(PickChains(Iterate(o.val).val, id_dict["chains"].v,
                               Get(o.params, "chains", PyNone), <<>>), o.params)

SequentialOrderAsArrived(p, id_dict) ==
    ChainsAsArrived(LoadChainOrder(Remove(p, "input_node")), id_dict)

\* lines 344-347, over the outcome o of reading chain_order
ReorderChains(o, id_dict) ==
    IF ~o.ok THEN Err(ChainOrderError, o.params)
    ELSE IF "chains" \notin DOMAIN id_dict THEN Err("TypeError", o.params)
    ELSE IF ~Iterate(o.val).ok THEN Err("TypeError", o.params)
    ELSE StoreChains(PickChains(Iterate(o.val).val, id_dict["chains"].v,
                                Get(o.params, "chains", PyNone), <<>>), o.params)

\* lines 338-347
SequentialOrder(p, id_dict) ==
    ReorderChains(LoadChainOrder(Remove(p, "input_node")), id_dict)

\* lines 349-350
DecodeHeaders(p) ==
    IF "headers" \in DOMAIN p /\ p["headers"].t = "str"
    THEN LET r == JsonLoads(p["headers"].v)
         IN  IF r.ok THEN Ok(Put(p, "headers", r.val)) ELSE Err("JSONDecodeError", p)
    ELSE Ok(p)

\* lines 351-360
ConversationalRetrieval(p) ==
    LET kw == [prompt |-> Get(p, "combine_docs_chain_kwargs", PyNone),
               document_prompt |-> Get(p, "document_prompt", PyNone)]
        q == Remove(Remove(p, "combine_docs_chain_kwargs"), "document_prompt")
    IN  Put(Put(q, "get_chat_history", Obj("str")), "combine_docs_chain_kwargs",
            Dict([k \in {x \in DOMAIN kw : kw[x] # PyNone} |-> kw[k]]))

\* lines 362-372; destination_chain_name is an ordered dict, a sequence of
\* <<key, name>> items
RECURSIVE Destinations(_, _, _, _)
Destinations(items, llm_chains, i, acc) ==
    IF items = <<>> THEN [ok |-> TRUE, val |-> acc]
    ELSE IF i > Len(llm_chains) THEN [ok |-> FALSE, val |-> acc]
    ELSE Destinations(Tail(items), llm_chains, i + 1, Put(acc, Head(items)[2], llm_chains[i]))

MultiRoute(p) ==
    IF "destination_chain_name" \notin DOMAIN p \/ "LLMChains" \notin DOMAIN p
    THEN Err("KeyError", p)
    ELSE LET d == Destinations(p["destination_chain_name"].v, p["LLMChains"].v, 1, EmptyDict)
         IN  IF ~d.ok THEN Err("IndexError", p)
             ELSE Ok(Put(Remove(Remove(p, "LLMChains"), "destination_chain_name"),
                         "destination_chains", Dict(d.val)))

\* lines 373-378, over the outcome m of the steps before
BuildChain(node_type, class_object, m, e) ==
    IF ~m.ok THEN Failed(m.error, m.params, <<>>)
    ELSE FromMethodOrDefault(e.from_method_nodes["chains"], node_type, class_object, m.params)

\* lines 362-372
RouteStep(node_type, d) ==
    IF node_type \in {"MultiPromptChain", "MultiRuleChain"} THEN MultiRoute(d) ELSE Ok(d)

\* lines 351-378, over the outcome c of decoding the headers
AfterHeaders(node_type, class_object, c, e) ==
    IF ~c.ok THEN Failed(c.error, c.params, <<>>)
    ELSE BuildChain(node_type, class_object,
                    RouteStep(node_type, IF node_type = "ConversationalRetrievalChain"
                                         THEN ConversationalRetrieval(c.params) ELSE c.params),
                    e)

\* lines 349-378, over the outcome b of the sequential reorder
AfterOrder(node_type, class_object, b, e) ==
    IF ~b.ok THEN Failed(b.error, b.params, <<>>)
    ELSE AfterHeaders(node_type, class_object, DecodeHeaders(b.params), e)

\* lines 338-347
OrderStep(node_type, a, id_dict) ==
    IF node_type = "SequentialChain" THEN SequentialOrder(a, id_dict) ELSE Ok(a)

\* lines 324-378
instantiate_chains(node_type, class_object, p, id_dict, e) ==
    AfterOrder(node_type, class_object, OrderStep(node_type, ChainRetriever(p, e), id_dict), e)

----------------------------------------------------------------------------
(* Agent, retriever, wrapper and output parser strategies *)

Bool(b) == [t |-> "bool", v |-> b]

\* Python truthiness
Truthy(x) ==
    CASE x.t \in {"none", "absent"} -> FALSE
      [] x.t = "bool" -> x.v
      [] x.t = "int" -> x.v # 0
      [] x.t \in {"str", "list", "tuple"} -> Len(x.v) > 0
      [] x.t = "set" -> x.v # {}
      [] x.t = "dict" -> DOMAIN x.v # {}
      [] OTHER -> TRUE

\* AgentExecutor.from_agent_and_tools(agent=..., tools=..., handle_parsing_errors=True)
AgentExecutor(agent, tools) ==
    Call("AgentExecutor.from_agent_and_tools", "AgentExecutor", "from_agent_and_tools",
         [agent |-> agent, tools |-> tools, handle_parsing_errors |-> Bool(TRUE)])

\* [tool.name for tool in allowed_tools]
ToolNames(tools) == [i \in DOMAIN tools |-> Str(<<tools[i].v.name>>)]

\* the executor around the agent that was constructed; a construction that
\* raised propagates (lines 385-388, 643-649)
WrapAgent(r, p, tools) ==
    IF ~r.ok THEN Failed(r.error, p, r.calls)
    ELSE Built(p, r.calls \o <<AgentExecutor(r.value, tools)>>, Obj(AgentExecutor(r.value, tools)))

\* lines 630-649
load_agent_executor(agent_class, p) ==
    IF "llm_chain" \notin DOMAIN p THEN Failed("KeyError", p, <<>>)
    ELSE LET given == Get(p, "allowed_tools", List(<<>>))
             allowed_tools == IF given.t \notin {"list", "set"} /\ HasAttr(given, "BaseTool")
                              THEN List(<<given>>) ELSE given
         IN  IF allowed_tools.t # "list" THEN Failed("TypeError", p, <<>>)
             ELSE IF \E i \in DOMAIN allowed_tools.v : ~HasAttr(allowed_tools.v[i], "name")
             THEN Failed("AttributeError", p, <<>>)
             ELSE WrapAgent(Construct(agent_class,
                                      [allowed_tools |-> List(ToolNames(allowed_tools.v)),
                                       llm_chain |-> p["llm_chain"]]),
                            p, allowed_tools)

\* lines 381-390
instantiate_agent(node_type, class_object, p, e) ==
    LET table == e.from_method_nodes["agents"]
    IN  IF node_type \in DOMAIN table /\ table[node_type] \in class_object.methods
        THEN WrapAgent(ConstructWith(class_object, table[node_type], p), p,
                       Get(p, "tools", List(<<>>)))
        ELSE load_agent_executor(class_object, p)

\* 'retriever' in key, over the parameter names of retriever nodes
HasRetrieverInKey(key) == key \in {"retriever", "base_retriever"}

\* lines 313-315
RetrieverParams(p) ==
    [k \in DOMAIN p |-> IF HasRetrieverInKey(k) /\ HasAttr(p[k], "as_retriever")
                        THEN AsRetriever(p[k]) ELSE p[k]]

\* lines 312-321
instantiate_retriever(node_type, class_object, p, e) ==
    FromMethodOrDefault(e.from_method_nodes["retrievers"], node_type, class_object,
                        RetrieverParams(p))

\* lines 231-237: the openai v1 clients of DallEAPIWrapper behind a proxy
DallEClients(node_type, p, e) ==
    IF node_type = "DallEAPIWrapper" /\ e.openai_v1
       /\ "openai_proxy" \in DOMAIN p /\ Truthy(p["openai_proxy"])
    THEN Put(Put(p, "client", Obj([name |-> "openai.OpenAI.images", proxies |-> p["openai_proxy"]])),
             "async_client", Obj([name |-> "openai.AsyncOpenAI.images", proxies |-> p["openai_proxy"]]))
    ELSE p

\* lines 225-239
instantiate_wrapper(node_type, class_object, p, e) ==
    IF node_type \in DOMAIN e.from_method_nodes["wrappers"]
    THEN FromMethodOrDefault(e.from_method_nodes["wrappers"], node_type, class_object, p)
    ELSE Construct(class_object, DallEClients(node_type, p, e))

\* lines 242-248
instantiate_output_parser(node_type, class_object, p, e) ==
    FromMethodOrDefault(e.from_method_nodes["output_parsers"], node_type, class_object, p)

----------------------------------------------------------------------------
(* Prompt strategy *)

\* a prompt object. A "plain" prompt owns its variable list; a "message" prompt
\* has a nested .prompt that owns it, and its own input_variables reads the
\* nested list; a "wrapper" prompt owns its list and has a .prompt without one
Prompt(kind, variables) ==
    [t |-> "prompt",
     v |-> [kind |-> kind,
            input_variables |-> IF kind = "message" THEN <<>> ELSE variables,
            nested_variables |-> IF kind = "message" THEN variables ELSE <<>>]]

\* prompt.input_variables
InputVariables(prompt) ==
    IF prompt.v.kind = "message" THEN prompt.v.nested_variables ELSE prompt.v.input_variables

\* lines 406-409: the assignment goes to the nested prompt when it has the list
AssignVariables(prompt, variables) ==
    IF prompt.v.kind = "message"
    THEN [prompt EXCEPT !.v.nested_variables = variables]
    ELSE [prompt EXCEPT !.v.input_variables = variables]

PromptKind(class_object) ==
    CASE class_object.name = "HumanMessagePromptTemplate" -> "message"
      [] class_object.name = "FewShotPromptTemplate" -> "wrapper"
      [] OTHER -> "plain"

\* handle_node_type: the prompt built over the declared input_variables
handle_node_type(node_type, class_object, p) ==
    Prompt(PromptKind(class_object), [i \in DOMAIN p["input_variables"].v |->
                                          p["input_variables"].v[i].v[1]])

\* handle_format_kwargs: the supplied values of the prompt's variables
handle_format_kwargs(prompt, p) ==
    [x \in {y \in Range(InputVariables(prompt)) : y \in DOMAIN p} |-> p[x]]

\* handle_partial_variables: partial formatting binds the supplied truthy
\* values, and a bound variable leaves the input variables
handle_partial_variables(prompt, format_kwargs) ==
    Prompt(prompt.v.kind,
           SelectSeq(InputVariables(prompt),
                     LAMBDA x : ~(x \in DOMAIN format_kwargs /\ Truthy(format_kwargs[x]))))

\* list(S) of a set of str: the elements in the order of the process's hashes
ListOfSet(S, hash_order) == SelectSeq(hash_order, LAMBDA x : x \in S)

\* node-bound variables listed before the human-input ones
NodeBoundFirst(input_variables, no_human_input, hash_order) ==
    ListOfSet(Range(input_variables) \cap no_human_input, hash_order)
    \o ListOfSet(Range(input_variables) \ no_human_input, hash_order)

\* lines 400-402
OrderInput(input_variables, no_human_input, hash_order) ==
    ListOfSet(Range(input_variables) \ no_human_input, hash_order)
    \o ListOfSet(Range(input_variables) \cap no_human_input, hash_order)

\* lines 393-410
instantiate_prompt(node_type, class_object, p, param_id_dict, e) ==
    LET built == handle_node_type(node_type, class_object, p)
        format_kwargs == handle_format_kwargs(built, p)
        prompt == IF DOMAIN format_kwargs # {}
                  THEN handle_partial_variables(built, format_kwargs) ELSE built
        order_input == OrderInput(InputVariables(prompt), DOMAIN param_id_dict, e.hash_order)
        final == IF Len(order_input) > 1 THEN AssignVariables(prompt, order_input) ELSE prompt
    IN  Built(p, <<Call("handle_node_type", class_object.name, "", p)>>,
              Tuple(<<final, Dict(format_kwargs)>>))

----------------------------------------------------------------------------
(* Vectorstore strategy *)

\* sorted list of a finite set of integers
RECURSIVE Ascending(_)
Ascending(S) ==
    IF S = {} THEN <<>>
    ELSE LET m == CHOOSE x \in S : \A y \in S : x <= y
         IN  <<m>> \o Ascending(S \ {m})

\* a directory row; names are sequences of tokens
Knowledge(id, collection_name, index_name, model) ==
    [id |-> id, collection_name |-> collection_name, index_name |-> index_name,
     model |-> model]

\* KnowledgeDao.get_list_by_ids: the rows of the directory with these ids
get_list_by_ids(e, knowledge_ids) ==
    LET found == {k.v : k \in Range(knowledge_ids)} \cap DOMAIN e.knowledge
    IN  [i \in 1..Cardinality(found) |-> e.knowledge[Ascending(found)[i]]]

\* KnowledgeDao.judge_knowledge_permission: the rows among these ids that the
\* user may access
judge_knowledge_permission(e, user_name, knowledge_ids) ==
    LET allowed == IF user_name \in DOMAIN e.access THEN e.access[user_name] ELSE {}
        found == {k.v : k \in Range(knowledge_ids)} \cap DOMAIN e.knowledge \cap allowed
    IN  [i \in 1..Cardinality(found) |-> e.knowledge[Ascending(found)[i]]]

FakeEmbedding == Obj([name |-> "FakeEmbedding", model |-> <<>>])

\* decide_embeddings(model)
decide_embeddings(model) == Obj([name |-> "Embedding", model |-> model])

\* name.startswith(token)
StartsWith(name, token) == Len(name) > 0 /\ name[1] = token

\* the directory lookup without the permission check
KnowledgeListUnchecked(p, col_name, user_name, e) ==
    get_list_by_ids(e, [i \in DOMAIN p[col_name].v |-> p[col_name].v[i].v["key"]])

\* lines 489-493, with the check skipped only by a falsy _is_check_auth
KnowledgeList(p, col_name, user_name, e) ==
    LET knowledge_ids == [i \in DOMAIN p[col_name].v |-> p[col_name].v[i].v["key"]]
    IN  IF Truthy(Get(p, "_is_check_auth", Bool(TRUE)))
        THEN judge_knowledge_permission(e, user_name, knowledge_ids)
        ELSE get_list_by_ids(e, knowledge_ids)

\* the Milvus parameters without the fallback embedding of line 511
MilvusParamsNoFallback(p, knowledge_list) ==
    LET embeddings == [i \in DOMAIN knowledge_list |-> decide_embeddings(knowledge_list[i].model)]
        q == [collection_name |-> List([i \in DOMAIN knowledge_list |->
                                           Str(knowledge_list[i].collection_name)]),
              collection_embeddings |-> List(embeddings),
              partition_keys |-> List([i \in DOMAIN knowledge_list |->
                                  IF StartsWith(knowledge_list[i].collection_name, "partition")
                                  THEN Num(knowledge_list[i].id) ELSE PyNone]),
              embedding |-> IF embeddings # <<>> THEN embeddings[1] ELSE PyNone]
    IN  [k \in DOMAIN p \cup DOMAIN q |-> IF k \in DOMAIN q THEN q[k] ELSE p[k]]

\* the Milvus parameters with a partition key appended for partitions only
MilvusParamsPartitionsOnly(p, knowledge_list) ==
    LET embeddings == [i \in DOMAIN knowledge_list |-> decide_embeddings(knowledge_list[i].model)]
        partitions == SelectSeq(knowledge_list,
                                LAMBDA k : StartsWith(k.collection_name, "partition"))
        q == [collection_name |-> List([i \in DOMAIN knowledge_list |->
                                           Str(knowledge_list[i].collection_name)]),
              collection_embeddings |-> List(embeddings),
              partition_keys |-> List([i \in DOMAIN partitions |-> Num(partitions[i].id)]),
              embedding |-> IF embeddings # <<>> THEN embeddings[1] ELSE FakeEmbedding]
    IN  [k \in DOMAIN p \cup DOMAIN q |-> IF k \in DOMAIN q THEN q[k] ELSE p[k]]

\* lines 500-511
MilvusParams(p, knowledge_list) ==
    LET embeddings == [i \in DOMAIN knowledge_list |-> decide_embeddings(knowledge_list[i].model)]
        q == [collection_name |-> List([i \in DOMAIN knowledge_list |->
                                           Str(knowledge_list[i].collection_name)]),
              collection_embeddings |-> List(embeddings),
              partition_keys |-> List([i \in DOMAIN knowledge_list |->
                                  IF StartsWith(knowledge_list[i].collection_name, "partition")
                                  THEN Num(knowledge_list[i].id) ELSE PyNone]),
              embedding |-> IF embeddings # <<>> THEN embeddings[1] ELSE FakeEmbedding]
    IN  [k \in DOMAIN p \cup DOMAIN q |-> IF k \in DOMAIN q THEN q[k] ELSE p[k]]

\* lines 513-515
ElasticParams(p, knowledge_list) ==
    Put(p, "index_name",
        List([i \in DOMAIN knowledge_list |->
                 IF knowledge_list[i].index_name # <<>>
                 THEN Str(knowledge_list[i].index_name)
                 ELSE Str(knowledge_list[i].collection_name)]))

\* lines 483-515
FilterCollections(node_type, p, user_name, e) ==
    IF node_type \notin {"MilvusWithPermissionCheck", "ElasticsearchWithPermissionCheck"}
    THEN Ok(p)
    ELSE LET col_name == IF node_type = "ElasticsearchWithPermissionCheck"
                         THEN "index_name" ELSE "collection_name"
         IN  IF col_name \notin DOMAIN p THEN Err("KeyError", p)
             ELSE LET knowledge_list == KnowledgeList(p, col_name, user_name, e)
                      q == Remove(p, "_is_check_auth")
                  IN  IF node_type = "MilvusWithPermissionCheck"
                      THEN Ok(MilvusParams(q, knowledge_list))
                      ELSE Ok(ElasticParams(q, knowledge_list))

\* lines 517-522
BuildStore(class_object, p, search_kwargs, e) ==
    IF class_object.name \in e.initializers
    THEN Call("vecstore_initializer", class_object.name, "", Put(p, "search_kwargs", search_kwargs))
    ELSE Call("class_method", class_object.name, "from_documents",
              IF "texts" \in DOMAIN p THEN Put(Remove(p, "texts"), "documents", p["texts"]) ELSE p)

\* lines 525-534
StoreRetriever(class_object, store, search_type, search_kwargs, user_name, e) ==
    IF Truthy(search_kwargs) /\ "as_retriever" \in class_object.methods
    THEN IF e.file_access # ""
         THEN [t |-> "filter_retriever",
               v |-> [vectorstore |-> store, access_url |-> e.file_access,
                      username |-> user_name, search_type |-> search_type,
                      search_kwargs |-> search_kwargs]]
         ELSE [t |-> "retriever",
               v |-> [vectorstore |-> store, search_type |-> search_type,
                      search_kwargs |-> search_kwargs]]
    ELSE store

\* lines 474-536
instantiate_vectorstore(node_type, class_object, p, e) ==
    LET user_name == Get(p, "user_name", Str(<<>>))
        search_kwargs == Get(p, "search_kwargs", Dict(EmptyDict))
        search_type == Get(p, "search_type", Str(<<"similarity">>))
        a == Remove(Remove(Remove(p, "user_name"), "search_kwargs"), "search_type")
        b == IF "documents" \in DOMAIN a THEN a ELSE Put(a, "documents", List(<<>>))
        f == FilterCollections(node_type, b, user_name, e)
    IN  IF ~f.ok THEN Failed(f.error, f.params, <<>>)
        ELSE LET c == BuildStore(class_object, f.params, search_kwargs, e)
                 q == IF c.fn = "class_method" THEN c.kwargs ELSE f.params
             IN  IF class_object.raises # "" THEN Failed(class_object.raises, q, <<c>>)
                 ELSE Built(q, <<c>>,
                            StoreRetriever(class_object, Obj(c), search_type, search_kwargs,
                                           user_name, e))

----------------------------------------------------------------------------
(* Input/output strategy *)

Val(x) == [ok |-> TRUE, error |-> "", val |-> x]
Raise(e) == [ok |-> FALSE, error |-> e, val |-> PyNone]

\* x[i] with i counted from 0
Index(x, i) ==
    CASE x.t \in {"list", "tuple"} ->
           IF i + 1 <= Len(x.v) THEN Val(x.v[i + 1]) ELSE Raise("IndexError")
      [] x.t = "str" ->
           IF i + 1 <= Len(x.v) THEN Val(Str(<<x.v[i + 1]>>)) ELSE Raise("IndexError")
      [] OTHER -> Raise("TypeError")

\* chain.input_keys[0]
FirstInputKey(chain) ==
    IF ~HasAttr(chain, "input_keys") THEN Raise("AttributeError")
    ELSE IF chain.v.input_keys = <<>> THEN Raise("IndexError")
    ELSE Val(chain.v.input_keys[1])

\* {'object': chain, 'node_id': node_id, 'input': {key: text}}; node_id Absent
\* is a dict without that key
ChainEntry(chain, node_id, key, text) ==
    Dict(FromOptions([object |-> chain, node_id |-> node_id,
                      input |-> Dict([k \in {key} |-> text])]))

\* lines 182-186: one entry per element of a list-valued preset
RECURSIVE PresetEntries(_, _, _)
PresetEntries(chain, pairs, acc) ==
    IF pairs = <<>> THEN Val(acc)
    ELSE LET node_id == Index(Head(pairs), 0)
             key == FirstInputKey(chain)
             text == Index(Head(pairs), 1)
         IN  IF ~node_id.ok THEN Raise(node_id.error)
             ELSE IF ~key.ok THEN Raise(key.error)
             ELSE IF ~text.ok THEN Raise(text.error)
             ELSE PresetEntries(chain, Tail(pairs),
                                Append(acc, ChainEntry(chain, node_id.val, key.val, text.val)))

\* lines 189-190: the preset read as one pair
SingleEntry(chain, pair) ==
    LET node_id == Index(pair, 0)
        key == FirstInputKey(chain)
        text == Index(pair, 1)
    IN  IF ~node_id.ok THEN Raise(node_id.error)
        ELSE IF ~key.ok THEN Raise(key.error)
        ELSE IF ~text.ok THEN Raise(text.error)
        ELSE Val(<<ChainEntry(chain, node_id.val, key.val, text.val)>>)

\* lines 192-194
DefaultEntry(chain) ==
    LET key == FirstInputKey(chain)
    IN  IF ~key.ok THEN Raise(key.error)
        ELSE Val(<<ChainEntry(chain, Absent, key.val, Str(<<"start">>))>>)

\* lines 180-194: the entries of one chain id; isinstance(preset, list) decides
EntriesOf(chain, id, preset_question) ==
    IF id \in DOMAIN preset_question
    THEN IF preset_question[id].t = "list"
         THEN PresetEntries(chain, preset_question[id].v, <<>>)
         ELSE SingleEntry(chain, preset_question[id])
    ELSE DefaultEntry(chain)

\* the chain list with each id's entries put in front of the earlier ones
RECURSIVE ReportChainsReversed(_, _, _, _, _)
ReportChainsReversed(chains, chains_idlist, preset_question, index, acc) ==
    IF index > Len(chains_idlist) THEN Val(acc)
    ELSE LET chain == Index(chains, index - 1)
         IN  IF ~chain.ok THEN Raise(chain.error)
             ELSE LET es == EntriesOf(chain.val, chains_idlist[index], preset_question)
                  IN  IF ~es.ok THEN Raise(es.error)
                      ELSE ReportChainsReversed(chains, chains_idlist, preset_question,
                                                index + 1, es.val \o acc)

\* lines 176-195
RECURSIVE ReportChains(_, _, _, _, _)
ReportChains(chains, chains_idlist, preset_question, index, acc) ==
    IF index > Len(chains_idlist) THEN Val(acc)
    ELSE LET chain == Index(chains, index - 1)
         IN  IF ~chain.ok THEN Raise(chain.error)
             ELSE LET es == EntriesOf(chain.val, chains_idlist[index], preset_question)
                  IN  IF ~es.ok THEN Raise(es.error)
                      ELSE ReportChains(chains, chains_idlist, preset_question, index + 1,
                                        acc \o es.val)

\* lines 198-202
RECURSIVE ReportVariables(_, _, _, _)
ReportVariables(variable, variable_node_id, index, acc) ==
    IF index > Len(variable_node_id) THEN Val(acc)
    ELSE LET input == Index(variable, index - 1)
         IN  IF ~input.ok THEN Raise(input.error)
             ELSE ReportVariables(variable, variable_node_id, index + 1,
                      Append(acc, Dict([node_id |-> variable_node_id[index],
                                        input |-> input.val])))

\* lines 169-203
Report(class_object, p, id_dict) ==
    LET preset_question == IF PRESET_QUESTION \in DOMAIN p THEN p[PRESET_QUESTION].v
                           ELSE EmptyDict
        a == Remove(p, PRESET_QUESTION)
        chain_list == ReportChains(Get(a, "chains", List(<<>>)),
                                   Get(id_dict, "chains", List(<<>>)).v,
                                   preset_question, 1, <<>>)
    IN  IF ~chain_list.ok THEN Failed(chain_list.error, a, <<>>)
        ELSE LET b == Put(a, "chains", List(chain_list.val))
                 ids == Get(id_dict, "variables", List(<<>>))
                 variables == ReportVariables(Get(b, "variables", PyNone),
                                              IF Truthy(ids) THEN ids.v ELSE <<>>, 1, <<>>)
             IN  IF ~variables.ok THEN Failed(variables.error, Put(b, "variables", List(<<>>)), <<>>)
                 ELSE Construct(class_object, Put(b, "variables", List(variables.val)))

\* file_download(ref): the local path and the display name
file_download(e, ref) == e.download

\* lines 204-210; text is what class_object(**params).text() returns
InputFileNode(class_object, p, e) ==
    LET c == Call("class_object", class_object.name, "__init__", p)
        text == Get(p, "file_path", Str(<<>>))
    IN  IF class_object.raises # "" THEN Failed(class_object.raises, p, <<c>>)
        ELSE IF ~Truthy(text) THEN Built(p, <<c>>, Str(<<>>))
        ELSE LET ref == Index(text, 0)
                 got == file_download(e, ref.val)
                 second == Index(got[1], 1)
             IN  IF ~ref.ok THEN Failed(ref.error, p, <<c>>)
                 ELSE IF Truthy(got[2]) THEN Built(p, <<c>>, List(<<got[1], got[2]>>))
                 ELSE IF ~second.ok THEN Failed(second.error, p, <<c>>)
                 ELSE Built(p, <<c>>, List(<<got[1], second.val>>))

\* lines 211-218
TextNode(class_object, p) ==
    IF "file_path" \in DOMAIN p /\ ~Truthy(p["file_path"]) THEN Built(p, <<>>, Str(<<>>))
    ELSE LET q == IF "file_path" \in DOMAIN p /\ p["file_path"].t = "list"
                  THEN Put(p, "file_path", p["file_path"].v[1]) ELSE p
             c == Call("class_object", class_object.name, "__init__", q)
         IN  IF class_object.raises # "" THEN Failed(class_object.raises, q, <<c>>)
             ELSE Built(q, <<c>>, Obj([name |-> "text", of |-> c]))

\* lines 168-218
instantiate_input_output(node_type, class_object, p, id_dict, e) ==
    IF node_type = "Report" THEN Report(class_object, p, id_dict)
    ELSE IF node_type = "InputFileNode" THEN InputFileNode(class_object, p, e)
    ELSE TextNode(class_object, p)

----------------------------------------------------------------------------
(* Tool, toolkit, embedding, llm, memory, utility, loader, splitter, custom *)

\* name.replace(' ', '_')
ReplaceSpaces(name) == [i \in DOMAIN name |-> IF name[i] = " " THEN "_" ELSE name[i]]

\* lines 433-444: the schema synthesised from an ordered field mapping, a
\* sequence of <<name, type>> items; it is named after the last field
ArgsSchema(items) ==
    [name |-> items[Len(items)][1],
     fields |-> [n \in {items[i][1] : i \in DOMAIN items} |->
                   LET last == CHOOSE i \in DOMAIN items :
                                 items[i][1] = n /\ \A j \in DOMAIN items :
                                                      items[j][1] = n => j <= i
                   IN  IF items[last][2] = "string" THEN "str" ELSE "Any"]]

\* a built tool: the object, its name and the schema attached to it
Tool(built, name, schema) == [t |-> "tool", v |-> [built |-> built, name |-> name,
                                                   args_schema |-> schema]]

NoSchema == [name |-> "", fields |-> EmptyDict]

\* lines 431-445: the shared path, after one extra construction for 'tool'
SharedTool(node_type, class_object, p, args_schema) ==
    LET first == IF node_type \in {"Tool", "tool", "TOOL"}
                 THEN Construct(class_object, p).calls ELSE <<>>
        r == Construct(class_object, p)
    IN  IF ~r.ok THEN Failed(r.error, p, IF first = <<>> THEN r.calls ELSE first)
        ELSE Built(p, first \o r.calls,
                   Tool(r.value, Get(p, "name", Str(<<>>)).v,
                        IF Truthy(args_schema) /\ "args_schema" \in class_object.methods
                        THEN ArgsSchema(args_schema.v) ELSE NoSchema))

\* lines 413-445
instantiate_tool(node_type, class_object, p, e) ==
    LET args_schema == Get(p, "args_schema", Str(<<>>))
        a == Remove(p, "args_schema")
    IN  CASE node_type = "JsonSpec" ->
               IF "path" \notin DOMAIN a THEN Failed("KeyError", a, <<>>)
               ELSE IF Truthy(e.file_dict)
               THEN Construct(class_object, Put(Remove(a, "path"), "dict_", e.file_dict))
               ELSE Failed("ValueError: Invalid file", Remove(a, "path"), <<>>)
          [] node_type = "PythonFunctionTool" ->
               Construct(class_object,
                         Put(a, "func", Obj([name |-> "function", code |-> Get(a, "code", PyNone)])))
          [] node_type = "PythonFunction" ->
               IF "code" \notin DOMAIN a THEN Failed("KeyError", a, <<>>)
               ELSE IF a["code"].t = "str"
               THEN Built(a, <<>>, Obj([name |-> "function", code |-> a["code"]]))
               ELSE Failed("ValueError: Function should be a string", a, <<>>)
          [] OTHER -> SharedTool(node_type, class_object, a, args_schema)

\* lines 108-112: a tool's name loses its spaces
NamedTool(r) ==
    IF r.ok /\ r.value.t = "tool"
    THEN [r EXCEPT !.value = Tool(r.value.v.built, ReplaceSpaces(r.value.v.name),
                                  r.value.v.args_schema)]
    ELSE r

\* lines 448-455
instantiate_toolkit(node_type, class_object, p) ==
    LET r == Construct(class_object, p)
    IN  IF r.ok /\ "BaseToolkit" \in class_object.methods
        THEN Built(p, r.calls, Obj([name |-> "get_tools", of |-> r.value]))
        ELSE r

\* lines 461-464 and 255-258: the http clients behind openai_proxy
ProxyClients(p) ==
    IF Truthy(Get(p, "openai_proxy", PyNone))
    THEN Remove(Put(Put(p, "http_client", Obj([name |-> "httpx.Client", proxies |-> p["openai_proxy"]])),
                    "http_async_client",
                    Obj([name |-> "httpx.AsyncClient", proxies |-> p["openai_proxy"]])),
                "openai_proxy")
    ELSE p

ValidationError == "ValidationError"

\* lines 460-468: the first construction; a class that declares its fields
\* rejects a parameter it does not declare
FirstConstruction(class_object, b) ==
    IF class_object.fields # {} /\ ~(DOMAIN b \subseteq class_object.fields)
    THEN Failed(ValidationError, b, <<Call("class_object", class_object.name, "__init__", b)>>)
    ELSE Construct(class_object, b)

\* the second construction, after the first one's calls; the filtered dict is
\* a new one, the caller's params stay as the first construction left them
AfterFirst(first, second) ==
    [second EXCEPT !.calls = first.calls \o second.calls, !.params = first.params]

\* the ValidationError is left to propagate
NoRetry(first, class_object, b) == first

\* lines 469-471: a ValidationError is answered by a second construction over
\* the parameters the class declares
RetryDeclared(first, class_object, b) ==
    IF first.ok \/ first.error # ValidationError THEN first
    ELSE AfterFirst(first, Construct(class_object,
                                     [k \in DOMAIN b \cap class_object.fields |-> b[k]]))

\* check_embedding_ctx_length is switched off for OpenAIEmbeddings (lines 465-466)
EmbeddingParams(class_object, a) ==
    IF class_object.name = "OpenAIEmbeddings"
    THEN Put(a, "check_embedding_ctx_length", Bool(FALSE)) ELSE a

EmbeddingWith(class_object, b) ==
    RetryDeclared(FirstConstruction(class_object, b), class_object, b)

\* lines 458-471
instantiate_embedding(class_object, p) ==
    EmbeddingWith(class_object, EmbeddingParams(class_object, ProxyClients(p)))

IsDigits(x) == x.t = "str" /\ x.v # <<>> /\ \A i \in DOMAIN x.v : x.v[i] \in Digits

\* lines 267-271
MaxTokens(p) ==
    IF "max_tokens" \notin DOMAIN p THEN p
    ELSE IF IsDigits(p["max_tokens"]) THEN Put(p, "max_tokens", Num(DigitsValue(p["max_tokens"].v)))
    ELSE IF p["max_tokens"].t # "int" THEN Remove(p, "max_tokens")
    ELSE p

\* lines 274-282: the request settings of the store applied to the model client
LlmRequest(class_object, built, e) ==
    [built |-> built,
     request_timeout |->
        IF "request_timeout" \in class_object.methods /\ "request_timeout" \in DOMAIN e.llm_request
        THEN IF IsDigits(e.llm_request["request_timeout"])
             THEN Num(DigitsValue(e.llm_request["request_timeout"].v))
             ELSE e.llm_request["request_timeout"]
        ELSE Absent,
     max_retries |->
        IF "max_retries" \in class_object.methods /\ "max_retries" \in DOMAIN e.llm_request
        THEN e.llm_request["max_retries"] ELSE Absent]

\* lines 251-284
instantiate_llm(node_type, class_object, p, e) ==
    LET a == IF e.openai_v1 THEN ProxyClients(p) ELSE p
        b == IF node_type = ""
             THEN Put(a, "anthropic_api_key",
                      IF Truthy(Get(a, "anthropic_api_key", PyNone))
                      THEN [t |-> "secret", v |-> a["anthropic_api_key"]] ELSE PyNone)
             ELSE a
    IN  IF node_type = "VertexAI"
        THEN LET c == Call("initialize_vertexai", class_object.name, "", b)
             IN  Built(b, <<c>>, Obj(c))
        ELSE LET r == Construct(class_object, MaxTokens(b))
             IN  IF ~r.ok THEN r
                 ELSE [r EXCEPT !.value = [t |-> "llm", v |-> LlmRequest(class_object, r.value, e)]]

\* the two messages instantiate_memory looks for
IsConnectionFailure(message) ==
    message \in {"object has no attribute 'cursor'", "object has no field \"conn\""}

ConnectionError == "AttributeError: Failed to build connection to database"

\* lines 287-309
instantiate_memory(node_type, class_object, p) ==
    LET a == IF node_type = "ConversationEntityMemory" THEN Remove(p, "memory_key") ELSE p
        b == [k \in {x \in DOMAIN a : ~(x \in {"input_key", "output_key"} /\ ~Truthy(a[x]))}
                |-> a[k]]
        c == IF "retriever" \in DOMAIN b /\ HasAttr(b["retriever"], "as_retriever")
             THEN Put(b, "retriever", AsRetriever(b["retriever"])) ELSE b
        r == Construct(class_object, c)
    IN  IF ~r.ok /\ IsConnectionFailure(r.error)
        THEN [r EXCEPT !.error = ConnectionError, !.cause = r.error]
        ELSE r

\* lines 610-613
instantiate_utility(node_type, class_object, p) ==
    IF node_type = "SQLDatabase"
    THEN IF "uri" \notin DOMAIN p THEN Failed("KeyError", p, <<>>)
         ELSE [ConstructWith(class_object, "from_uri", [uri |-> p["uri"]])
                  EXCEPT !.params = Remove(p, "uri")]
    ELSE Construct(class_object, p)

\* a loaded document and its metadata
Document(content, metadata) == [t |-> "doc", v |-> [content |-> content, metadata |-> metadata]]

\* lines 568-574: d.update(metadata) lets the supplied value win on a shared key
MergeMetadata(doc, metadata) ==
    IF DOMAIN doc.v.metadata = {} THEN Document(doc.v.content, metadata)
    ELSE Document(doc.v.content,
                  [k \in DOMAIN doc.v.metadata \cup DOMAIN metadata |->
                      IF k \in DOMAIN metadata THEN metadata[k] ELSE doc.v.metadata[k]])

\* lines 549-555
LoaderPath(class_object, p) ==
    IF "file_path" \in DOMAIN p /\ p["file_path"].t = "list"
    THEN LET q == Put(p, "file_path", p["file_path"].v[1])
         IN  IF class_object.name = "ElemUnstructuredLoaderV0"
             THEN Put(q, "file_name", p["file_path"].v[2]) ELSE q
    ELSE p

\* lines 566-576: docs = class_object(**params).load(), then the merge; a
\* supplied value that is not a dict replaces empty metadata and makes
\* update() raise on a document that has metadata
LoadDocuments(r, b, metadata, docs) ==
    IF ~r.ok THEN r
    ELSE IF ~Truthy(metadata) THEN Built(b, r.calls, List(docs))
    ELSE IF metadata.t = "dict"
    THEN Built(b, r.calls, List([i \in DOMAIN docs |-> MergeMetadata(docs[i], metadata.v)]))
    ELSE IF \E i \in DOMAIN docs : DOMAIN docs[i].v.metadata # {}
    THEN Failed("TypeError", b, r.calls)
    ELSE Built(b, r.calls, List([i \in DOMAIN docs |-> Document(docs[i].v.content, metadata)]))

\* lines 539-576; e.documents is what the loader's load() returns
instantiate_documentloader(class_object, p, e) ==
    LET a == IF "file_filter" \in DOMAIN p
             THEN Put(p, "file_filter", Obj([name |-> "lambda", extensions |-> p["file_filter"]]))
             ELSE p
        malformed == "file_path" \in DOMAIN a /\ a["file_path"].t = "list"
                     /\ Len(a["file_path"].v) < 2
        b == Remove(LoaderPath(class_object, a), "metadata")
        given == Get(a, "metadata", PyNone)
        decoded == IF Truthy(given) /\ given.t = "str" THEN JsonLoads(given.v)
                   ELSE [ok |-> TRUE, val |-> given]
    IN  IF "file_filter" \in DOMAIN p /\ p["file_filter"].t # "str"
        THEN Failed("AttributeError", Remove(p, "file_filter"), <<>>)
        ELSE IF malformed THEN Failed("IndexError", a, <<>>)
        ELSE IF ~decoded.ok THEN Failed("ValueError: metadata is not a valid JSON string", b, <<>>)
        ELSE IF "file_path" \in DOMAIN b /\ ~Truthy(b["file_path"]) THEN Built(b, <<>>, List(<<>>))
        ELSE LoadDocuments(Construct(class_object, b), b, decoded.val, e.documents)

\* text.encode().decode('unicode-escape'), for the escapes \\n and \\t
RECURSIVE Unescape(_)
Unescape(text) ==
    IF text = <<>> THEN <<>>
    ELSE IF Len(text) >= 2 /\ text[1] = "\\" /\ text[2] \in {"n", "t"}
    THEN <<IF text[2] = "n" THEN "\n" ELSE "\t">> \o Unescape(SubSeq(text, 3, Len(text)))
    ELSE <<text[1]>> \o Unescape(Tail(text))

\* lines 591-606
SplitterFor(class_object, p) ==
    IF "separator_type" \notin DOMAIN p \/ p["separator_type"] = Str(<<"Text">>)
    THEN Construct(class_object,
                   IF "separators" \in DOMAIN p
                   THEN Put(Remove(p, "separator_type"), "separators",
                            Str(Unescape(p["separators"].v)))
                   ELSE Remove(p, "separator_type"))
    ELSE ConstructWith(class_object, "from_language",
                       Put(Remove(Remove(p, "separator_type"), "separators"),
                           "language", p["separator_type"]))

\* lines 579-607
instantiate_textsplitter(class_object, p) ==
    IF "documents" \notin DOMAIN p
    THEN Failed("ValueError: The source you provided did not load correctly or was empty", p, <<>>)
    ELSE IF ~Truthy(p["documents"]) THEN Built(Remove(p, "documents"), <<>>, List(<<>>))
    ELSE LET r == SplitterFor(class_object, Remove(p, "documents"))
         IN  IF ~r.ok THEN r
             ELSE Built(r.params, r.calls,
                        Obj([name |-> "split_documents", of |-> r.value,
                             documents |-> p["documents"]]))

\* lines 147-165; the component class is compiled from params['code']
instantiate_custom_component(node_type, class_object, p, user_id) ==
    IF "code" \notin DOMAIN p THEN Failed("KeyError", p, <<>>)
    ELSE LET a == Remove(p, "code")
             b == IF "retriever" \in DOMAIN a /\ HasAttr(a["retriever"], "as_retriever")
                  THEN Put(a, "retriever", AsRetriever(a["retriever"])) ELSE a
             component == Call("eval_custom_component_code", "CustomComponent", "__init__",
                               [code |-> p["code"], user_id |-> user_id])
             build == Call("build", "CustomComponent", "build", b)
         IN  Built(p, <<component, build>>,
                   Tuple(<<Obj(build), Dict([repr |-> Obj([name |-> "custom_repr"])])>>))

\* lines 221-222
instantiate_autogen_roles(node_type, class_object, p) == Construct(class_object, p)

----------------------------------------------------------------------------
(* Descriptors of chain nodes *)

MaxChains == 3
MaxOrder == 3

IdChars == <<"a", "b", "c", "d", "e", "f">>
ChainNames == <<"A", "B", "C", "D", "E", "F">>
UnknownId == Str(<<"z">>)

NodeId(i) == Str(<<IdChars[i]>>)
ChainObj(i) == Object(ChainNames[i], {"input_keys"}, <<"question", "context">>)

SeqsUpTo(S, n) == UNION {[1..k -> S] : k \in 0..n}
Perms(n) == {f \in [1..n -> 1..n] : \A i, j \in 1..n : f[i] = f[j] => i = j}

\* json.dumps of a list of str ids
RECURSIVE JoinIds(_)
JoinIds(ids) ==
    IF ids = <<>> THEN <<>>
    ELSE (<<Quote>> \o Head(ids).v \o <<Quote>>)
         \o (IF Len(ids) = 1 THEN <<>> ELSE <<",">> \o JoinIds(Tail(ids)))

DumpIds(ids) == <<"[">> \o JoinIds(ids) \o <<"]">>

NoFactories ==
    [chains |-> EmptyDict, agents |-> EmptyDict, retrievers |-> EmptyDict,
     wrappers |-> EmptyDict, output_parsers |-> EmptyDict]

Vars == {"x", "y", "z"}

\* the collaborators a build reads: the creators' from_method_nodes tables, the
\* settings store, the knowledge directory and who may access which row, the
\* registered vectorstore initializers, what loaders and downloads return, and
\* the order in which this process's hashes list a set of variable names
BaseEnv ==
    [from_method_nodes |-> NoFactories, file_access |-> "", openai_v1 |-> TRUE,
     llm_request |-> EmptyDict, knowledge |-> EmptyDict, access |-> EmptyDict,
     initializers |-> {}, file_dict |-> Dict(EmptyDict), documents |-> <<>>,
     download |-> <<Str(<<"p", "a">>), Str(<<>>)>>, hash_order |-> <<"x", "y", "z">>]

Env(tables, file_access) ==
    [BaseEnv EXCEPT !.from_method_nodes = tables, !.file_access = file_access]

Table(node_type, method) == [k \in {node_type} |-> method]

Descriptor(base_type, node_type, methods, p, id_dict) ==
    [base_type |-> base_type, node_type |-> node_type,
     class_object |-> Class(node_type, methods), params |-> p, id_dict |-> id_dict,
     user_id |-> 1]

Case(e, d) == [env |-> e, args |-> d]

\* n upstream sub-chains arriving in the order arrival, node i having id NodeId(i)
ArrivedChains(n, arrival) == List([k \in 1..n |-> ChainObj(arrival[k])])
ArrivedIds(n, arrival) == List([k \in 1..n |-> NodeId(arrival[k])])

SequentialCases ==
    { Case(Env(NoFactories, ""),
           Descriptor("chains", "SequentialChain", {},
                      [chains |-> ArrivedChains(c.n, c.arrival),
                       chain_order |-> Str(DumpIds(c.order))],
                      [chains |-> ArrivedIds(c.n, c.arrival)])) :
        c \in UNION { [n : {n}, arrival : Perms(n),
                       order : SeqsUpTo({NodeId(i) : i \in 1..n} \cup {UnknownId}, MaxOrder)] :
                      n \in 0..MaxChains } }

OddOrders ==
    { Absent, List(<<NodeId(1)>>), Str(DumpIds(<<NodeId(2), NodeId(1)>>)),
      Str(<<"[">>), Str(<<"[", Quote, "a", Quote>>), Str(<<"a">>),
      Str(<<"[", Quote, "a", Quote, ",", "]">>), Str(<<>>),
      Str(<<"{", "}">>), Str(<<Quote, "a", Quote>>), Str(<<"1">>), Str(<<"[", "1", "]">>),
      Str(<<"[", "[", Quote, "a", Quote, "]", "]">>) }

SequentialVariants ==
    { Case(Env([NoFactories EXCEPT !["chains"] = tbl], ""),
           Descriptor("chains", "SequentialChain", methods,
                      FromOptions([chains |-> ArrivedChains(2, arrival), chain_order |-> o,
                                   input_node |-> i]),
                      FromOptions([chains |-> IF known THEN ArrivedIds(2, arrival)
                                               ELSE Absent]))) :
        tbl \in {EmptyDict, Table("SequentialChain", "from_chains")},
        methods \in {{}, {"from_chains"}},
        arrival \in Perms(2), o \in OddOrders, i \in {Absent, Str(<<"a">>)},
        known \in BOOLEAN }

Store == Object("Milvus", {"as_retriever"}, <<>>)
PlainRetriever == Object("Retriever", {}, <<>>)

OtherChainCases ==
    { Case(Env([NoFactories EXCEPT !["chains"] = tbl], fa),
           Descriptor("chains", nt, methods,
                      FromOptions([retriever |-> r, user_name |-> u, headers |-> h,
                                   combine_docs_chain_kwargs |-> k]),
                      EmptyDict)) :
        tbl \in {EmptyDict, Table("ConversationalRetrievalChain", "from_llm")},
        fa \in {"", "url"}, nt \in {"LLMChain", "ConversationalRetrievalChain"},
        methods \in {{}, {"from_llm"}},
        r \in {Absent, Store, PlainRetriever}, u \in {Absent, Str(<<"a">>)},
        h \in {Absent, Str(<<"{", "}">>), Str(<<"a">>)},
        k \in {Absent, Object("Prompt", {}, <<>>)} }

RouteCases ==
    { Case(Env(NoFactories, ""),
           Descriptor("chains", nt, {},
                      FromOptions([destination_chain_name |-> d, LLMChains |-> l]),
                      EmptyDict)) :
        nt \in {"MultiPromptChain", "MultiRuleChain"},
        d \in {Absent, [t |-> "odict", v |-> <<>>],
               [t |-> "odict", v |-> << <<"k1", "x">>, <<"k2", "y">> >>],
               [t |-> "odict", v |-> << <<"k1", "x">>, <<"k2", "x">> >>]},
        l \in {Absent, List(<<ChainObj(1)>>), List(<<ChainObj(1), ChainObj(2)>>)} }

ChainCases == SequentialCases \cup SequentialVariants \cup OtherChainCases \cup RouteCases

NoResult == [ok |-> TRUE, error |-> "", cause |-> "", calls |-> <<>>, value |-> PyNone]

Start(cases) ==
    /\ pc = "ready"
    /\ \E c \in cases : env = c.env /\ args = c.args
    /\ params = args.params
    /\ result = NoResult

\* lines 97-144
instantiate_based_on_type(class_object, base_type, node_type, p, param_id_dict, user_id, e) ==
    CASE base_type = "agents" -> instantiate_agent(node_type, class_object, p, e)
      [] base_type = "prompts" -> instantiate_prompt(node_type, class_object, p, param_id_dict, e)
      [] base_type = "tools" -> NamedTool(instantiate_tool(node_type, class_object, p, e))
      [] base_type = "toolkits" -> instantiate_toolkit(node_type, class_object, p)
      [] base_type = "embeddings" -> instantiate_embedding(class_object, p)
      [] base_type = "vectorstores" -> instantiate_vectorstore(node_type, class_object, p, e)
      [] base_type = "documentloaders" -> instantiate_documentloader(class_object, p, e)
      [] base_type = "textsplitters" -> instantiate_textsplitter(class_object, p)
      [] base_type = "utilities" -> instantiate_utility(node_type, class_object, p)
      [] base_type = "chains" -> instantiate_chains(node_type, class_object, p, param_id_dict, e)
      [] base_type = "output_parsers" -> instantiate_output_parser(node_type, class_object, p, e)
      [] base_type = "llms" -> instantiate_llm(node_type, class_object, p, e)
      [] base_type = "retrievers" -> instantiate_retriever(node_type, class_object, p, e)
      [] base_type = "memory" -> instantiate_memory(node_type, class_object, p)
      [] base_type = "custom_components" ->
           instantiate_custom_component(node_type, class_object, p, user_id)
      [] base_type = "wrappers" -> instantiate_wrapper(node_type, class_object, p, e)
      [] base_type = "input_output" ->
           instantiate_input_output(node_type, class_object, p, param_id_dict, e)
      [] base_type = "autogen_roles" -> instantiate_autogen_roles(node_type, class_object, p)
      [] OTHER -> Construct(class_object, p)

\* the caller sees the params dict as the strategy left it, and what it
\* returned or raised
Return(r) ==
    /\ params' = r.params
    /\ result' = [ok |-> r.ok, error |-> r.error, cause |-> r.cause,
                  calls |-> r.calls, value |-> r.value]

\* one node descriptor, consumed once by the dispatcher
InstantiateBasedOnType ==
    /\ pc = "ready"
    /\ Return(instantiate_based_on_type(args.class_object, args.base_type, args.node_type,
                                        args.params, args.id_dict, args.user_id, env))
    /\ pc' = "done"
    /\ UNCHANGED <<env, args>>

Next == InstantiateBasedOnType

InitChains == Start(ChainCases)

SpecChains == InitChains /\ [][Next]_vars

SequentialDone ==
    pc = "done" /\ args.base_type = "chains" /\ args.node_type = "SequentialChain"

\* the order list the caller supplied, as json.loads reads it
SuppliedOrder ==
    IF "chain_order" \in DOMAIN args.params /\ args.params["chain_order"].t = "str"
    THEN JsonLoads(args.params["chain_order"].v)
    ELSE [ok |-> FALSE, val |-> PyNone]

\* sub-chains and source ids arrive aligned, every source id once
ChainsAligned ==
    /\ "chains" \in DOMAIN args.params /\ "chains" \in DOMAIN args.id_dict
    /\ args.params["chains"].t = "list"
    /\ Len(args.params["chains"].v) = Len(args.id_dict["chains"].v)
    /\ \A i, j \in DOMAIN args.id_dict["chains"].v :
          args.id_dict["chains"].v[i] = args.id_dict["chains"].v[j] => i = j

SourceIds == IF "chains" \in DOMAIN args.id_dict THEN Range(args.id_dict["chains"].v) ELSE {}

OrderOfSourceIds ==
    /\ SuppliedOrder.ok /\ SuppliedOrder.val.t = "list"
    /\ \A k \in DOMAIN SuppliedOrder.val.v : SuppliedOrder.val.v[k] \in SourceIds

\* the arrived sub-chain whose source id is id
SubChainOf(id) ==
    args.params["chains"].v[CHOOSE j \in DOMAIN args.id_dict["chains"].v :
                                args.id_dict["chains"].v[j] = id]

OrderedSubChains ==
    List([k \in DOMAIN SuppliedOrder.val.v |-> SubChainOf(SuppliedOrder.val.v[k])])

\* C4: for a SequentialChain whose sub-chains arrive aligned with their source
\* ids and whose chain_order lists some of those ids, position i of the
\* sub-chain list handed to construction holds the sub-chain whose source id is
\* chain_order[i], whatever the arrival order.
C4_SequentialReorder ==
    (SequentialDone /\ ChainsAligned /\ OrderOfSourceIds) =>
        /\ params["chains"] = OrderedSubChains
        /\ result.ok => result.calls[1].kwargs["chains"] = OrderedSubChains
        /\ ~result.ok => result.error = MethodNotFound

\* sub-chains [A,B,C] with ids [a,b,c] and order [c,a,b] are built as [C,A,B]
C4_Witness ==
    /\ SequentialDone
    /\ args.params["chains"] = List(<<ChainObj(1), ChainObj(2), ChainObj(3)>>)
    /\ args.id_dict["chains"] = List(<<NodeId(1), NodeId(2), NodeId(3)>>)
    /\ args.params["chain_order"] = Str(DumpIds(<<NodeId(3), NodeId(1), NodeId(2)>>))
    /\ result.ok
    /\ result.calls[1].kwargs["chains"] = List(<<ChainObj(3), ChainObj(1), ChainObj(2)>>)

OrderMissingOrUnparsable == ~SuppliedOrder.ok

OrderNamesUnknownId ==
    /\ SuppliedOrder.ok /\ SuppliedOrder.val.t = "list"
    /\ \E k \in DOMAIN SuppliedOrder.val.v : SuppliedOrder.val.v[k] \notin SourceIds

\* C5 (as stated): a SequentialChain whose chain_order is missing, is not
\* parsable, or names an id that is not a source id of 'chains' fails with the
\* order error before any chain object is constructed.
C5_OrderErrorOnUnusableOrder ==
    (SequentialDone /\ (OrderMissingOrUnparsable \/ OrderNamesUnknownId)) =>
        (~result.ok /\ result.error = ChainOrderError /\ result.calls = <<>>)

\* C5 (amended): a missing or unparsable chain_order fails with the order error
\* before any chain object is constructed; an order that parses but names an
\* id that is not a source id of 'chains' also fails before construction, but
\* with a TypeError raised by the list indexing, not with the order error.
C5_OrderErrorOnUnparsableOrder ==
    /\ (SequentialDone /\ OrderMissingOrUnparsable) =>
          (~result.ok /\ result.error = ChainOrderError /\ result.calls = <<>>)
    /\ (SequentialDone /\ OrderNamesUnknownId) =>
          (~result.ok /\ result.error = "TypeError" /\ result.calls = <<>>)

C5_Witness ==
    /\ SequentialDone
    /\ "chain_order" \notin DOMAIN args.params
    /\ "chains" \in DOMAIN args.params
    /\ result.error = ChainOrderError
    /\ result.calls = <<>>

----------------------------------------------------------------------------
(* Dispatch over every category *)

FactoryCategories == {"chains", "agents", "retrievers", "wrappers", "output_parsers"}

LlmChain == Object("LLMChain", {"input_keys"}, <<"question">>)
SearchTool == Object("Search", {"name", "BaseTool"}, <<>>)

\* the parameters a node of each category arrives with
CategoryParams(base_type) ==
    CASE base_type = "agents" ->
           {[llm_chain |-> LlmChain, allowed_tools |-> List(<<SearchTool>>),
             tools |-> List(<<SearchTool>>)],
            [llm_chain |-> LlmChain], [llm_chain |-> LlmChain, allowed_tools |-> SearchTool]}
      [] base_type = "retrievers" ->
           {[retriever |-> Store], [base_retriever |-> PlainRetriever]}
      [] base_type = "wrappers" ->
           {EmptyDict, [openai_proxy |-> Str(<<"p">>)]}
      [] base_type = "chains" ->
           {[llm |-> Object("llm", {}, <<>>)], [headers |-> Str(<<"{", "}">>)]}
      [] OTHER -> {EmptyDict, [temperature |-> Num(1)]}

CategoryTypes(base_type) ==
    CASE base_type = "agents" -> {"ZeroShotAgent", "JsonAgent"}
      [] base_type = "retrievers" -> {"MultiQueryRetriever"}
      [] base_type = "wrappers" -> {"TextRequestsWrapper", "DallEAPIWrapper"}
      [] base_type = "chains" -> {"LLMChain", "ConversationalRetrievalChain"}
      [] OTHER -> {"StructuredOutputParser"}

\* a creator's table with the node type registered, or not, the class having
\* the registered method, or not
FactoryCases ==
    UNION { { Case(Env([NoFactories EXCEPT ![cat] = IF registered THEN Table(nt, "from_llm")
                                                    ELSE EmptyDict], ""),
                   Descriptor(cat, nt, methods, p, EmptyDict)) :
                nt \in CategoryTypes(cat), registered \in BOOLEAN,
                methods \in {{}, {"from_llm"}, {"from_llm_and_tools"}},
                p \in CategoryParams(cat) } :
            cat \in FactoryCategories }

PlainCategories ==
    {"toolkits", "embeddings", "utilities", "llms", "memory", "custom_components",
     "autogen_roles", "tools", "textsplitters", "documentloaders", "unknown"}

PlainParams(base_type) ==
    CASE base_type = "tools" ->
           {[name |-> Str(<<"m", "y", " ", "t">>)],
            [name |-> Str(<<"t">>), args_schema |-> [t |-> "odict", v |-> << <<"q", "string">>, <<"n", "integer">> >>]],
            [code |-> Str(<<"a">>)], [code |-> Num(1)], [path |-> Str(<<"p">>)]}
      [] base_type = "embeddings" ->
           {[model |-> Str(<<"m">>)], [model |-> Str(<<"m">>), openai_proxy |-> Str(<<"p">>)]}
      [] base_type = "utilities" -> {[uri |-> Str(<<"u">>)], EmptyDict}
      [] base_type = "llms" ->
           {[max_tokens |-> Str(<<"1", "2">>)], [max_tokens |-> Str(<<"a">>)],
            [max_tokens |-> Num(3), openai_proxy |-> Str(<<"p">>)],
            [anthropic_api_key |-> Str(<<"k">>)]}
      [] base_type = "memory" ->
           {[input_key |-> Str(<<>>), memory_key |-> Str(<<"h">>)],
            [output_key |-> Str(<<"o">>), retriever |-> Store]}
      [] base_type = "custom_components" -> {[code |-> Str(<<"a">>), retriever |-> Store], EmptyDict}
      [] base_type = "textsplitters" ->
           {EmptyDict, [documents |-> List(<<>>)],
            [documents |-> List(<<Document(<<"a">>, EmptyDict)>>),
             separators |-> Str(<<"\\", "n">>)],
            [documents |-> List(<<Document(<<"a">>, EmptyDict)>>),
             separator_type |-> Str(<<"python">>), separators |-> Str(<<"a">>)]}
      [] base_type = "documentloaders" ->
           {[file_path |-> Str(<<>>)], [file_path |-> List(<<Str(<<"p">>), Str(<<"n">>)>>),
                                        metadata |-> Str(<<"{", "}">>)],
            [file_path |-> Str(<<"p">>), metadata |-> Str(<<"a">>),
             file_filter |-> Str(<<"t">>)]}
      [] OTHER -> {EmptyDict, [temperature |-> Num(1)]}

PlainTypes(base_type) ==
    CASE base_type = "tools" -> {"Tool", "JsonSpec", "PythonFunctionTool", "PythonFunction", "Search"}
      [] base_type = "utilities" -> {"SQLDatabase", "SerpAPIWrapper"}
      [] base_type = "llms" -> {"", "VertexAI", "ChatOpenAI"}
      [] base_type = "memory" -> {"ConversationEntityMemory", "PostgresChatMessageHistory"}
      [] base_type = "embeddings" -> {"OpenAIEmbeddings", "HostEmbeddings"}
      [] OTHER -> {"Node"}

PlainClasses ==
    { Class("", {}),
      Class("", {"args_schema", "BaseToolkit", "request_timeout", "max_retries"}),
      ClassWith("", {}, {"model"}, ""),
      ClassWith("", {}, {}, "object has no attribute 'cursor'"),
      ClassWith("", {}, {}, "connection refused") }

PlainCases ==
    UNION { { Case([BaseEnv EXCEPT !.llm_request = [request_timeout |-> Str(<<"3">>),
                                                    max_retries |-> Num(2)],
                                   !.file_dict = IF nt = "JsonSpec" /\ c.methods = {}
                                                 THEN Dict(EmptyDict) ELSE Dict([a |-> Num(1)]),
                                   !.documents = <<Document(<<"a">>, [source |-> Str(<<"s">>)])>>],
                   [base_type |-> cat, node_type |-> nt,
                    class_object |-> [c EXCEPT !.name = nt], params |-> p,
                    id_dict |-> EmptyDict, user_id |-> 1]) :
                nt \in PlainTypes(cat), c \in PlainClasses, p \in PlainParams(cat) } :
            cat \in PlainCategories }

DispatchCases == FactoryCases \cup PlainCases

InitDispatch == Start(DispatchCases)

SpecDispatch == InitDispatch /\ [][Next]_vars

Dispatched == pc = "done"

FactoryTable == env.from_method_nodes[args.base_type]

Registered == args.base_type \in FactoryCategories /\ args.node_type \in DOMAIN FactoryTable

\* the construction calls that are the class's default path
DefaultCalls == {i \in DOMAIN result.calls : result.calls[i].fn = "class_object"}

FactoryCallsOf(method) ==
    {i \in DOMAIN result.calls :
        result.calls[i].fn = "class_method" /\ result.calls[i].method = method}

\* C1: when a factory method is registered for the dispatched (category, type),
\* a built object comes from that method and default construction is never
\* invoked; without the entry the same dispatch uses default construction.
C1_FactoryMethodPrecedence ==
    (Dispatched /\ args.base_type \in FactoryCategories) =>
        IF Registered
        THEN /\ DefaultCalls = {}
             /\ result.ok => FactoryCallsOf(FactoryTable[args.node_type]) # {}
        ELSE /\ \A i \in DOMAIN result.calls : result.calls[i].fn # "class_method"
             /\ result.ok => DefaultCalls # {}

\* C2: in every strategy that consults a from_method_nodes table, a registered
\* method that the resolved class lacks makes the build fail with the
\* missing-method error, no object is returned and nothing is constructed.
C2_MissingMethodFails ==
    (Dispatched /\ Registered /\ FactoryTable[args.node_type] \notin args.class_object.methods) =>
        (~result.ok /\ result.error = MethodNotFound /\ result.value = PyNone
         /\ result.calls = <<>>)

----------------------------------------------------------------------------
(* Normalisation applied, and applied again to its own result *)

JsonTexts ==
    { <<"{", "}">>, <<"1">>, <<"1", "2">>, <<Quote, "1", Quote>>, <<Quote, "a", Quote>>,
      <<"a">>, <<"[", "1", ",", Quote, "a", Quote, "]">>, <<"[", "1", ",", "]">>,
      <<Quote, "{", "}", Quote>>, <<Quote, "a">>, <<"1", "a">> }

SpecialValues ==
    { Absent, List(<<Str(<<"a">>), Str(<<"a">>), Str(<<"b">>)>>), Str(<<"a", "b", "a">>),
      SetOf({Str(<<"a">>)}), Num(1) }

KwargsValues == {Absent, Dict(EmptyDict)} \cup {Str(x) : x \in JsonTexts}

NormInputs ==
    { FromOptions([allowed_special |-> a, input_node |-> i, model_kwargs |-> k,
                   headers |-> h, node_id_dict |-> n]) :
        a \in SpecialValues, i \in {Absent, Str(<<"a">>)}, k \in KwargsValues,
        h \in {Absent, Str(<<"{", "}">>)}, n \in {Absent, Dict(EmptyDict)} }

NoEnv == [none |-> TRUE]
NotNormalized == [ok |-> TRUE, error |-> "", id_dict |-> PyNone]

InitNorm ==
    /\ pc = "ready"
    /\ env = NoEnv
    /\ args \in NormInputs
    /\ params = args
    /\ result = NotNormalized

\* instantiate_class lines 58-60 on the caller's mapping
NormalizeOnce ==
    /\ pc = "ready"
    /\ LET r == Normalize(args)
       IN  /\ params' = r.params
           /\ result' = [ok |-> r.ok, error |-> r.error, id_dict |-> r.id_dict]
           /\ pc' = IF r.ok THEN "normalized" ELSE "failed"
    /\ UNCHANGED <<env, args>>

\* the same steps on the mapping the first application produced
NormalizeAgain ==
    /\ pc = "normalized"
    /\ args' = params
    /\ LET r == Normalize(params)
       IN  /\ params' = r.params
           /\ result' = [ok |-> r.ok, error |-> r.error, id_dict |-> r.id_dict]
    /\ pc' = "renormalized"
    /\ UNCHANGED env

NextNorm == NormalizeOnce \/ NormalizeAgain

SpecNorm == InitNorm /\ [][NextNorm]_vars

NoTextKwargs(p) == \A k \in DOMAIN p : HasKwargsOrConfig(k) => p[k].t # "str"

\* C3 (as stated): whenever the normalisation steps succeed on a mapping,
\* applying them again to the result succeeds too and yields the same mapping.
C3_NormalizationIdempotent ==
    pc = "renormalized" => (result.ok /\ params = args)

\* C3 (amended): the second application never succeeds, because the first one
\* removed the sourceIds bundle; the two conversion steps are idempotent: when
\* no kwargs/config parameter of the first result is text, the second
\* application fails only at the extraction (KeyError) and leaves the mapping
\* exactly as the first application produced it.
C3_ConversionsIdempotent ==
    pc = "renormalized" =>
        /\ ~result.ok
        /\ NoTextKwargs(args) => (result.error = "KeyError" /\ params = args)

C3_Witness ==
    /\ pc = "renormalized"
    /\ "model_kwargs" \in DOMAIN args /\ args["model_kwargs"].t = "list"
    /\ "allowed_special" \in DOMAIN args /\ args["allowed_special"].t = "set"
    /\ result.error = "KeyError"
    /\ params = args

----------------------------------------------------------------------------
(* Descriptors of prompt nodes *)

MaxVars == 3

\* declared variable lists: distinct names, at most MaxVars of them
DeclaredLists ==
    {s \in SeqsUpTo(Vars, MaxVars) : \A i, j \in DOMAIN s : s[i] = s[j] => i = j}

\* the orders in which a process may list a set of the names
HashOrders ==
    {s \in [1..Cardinality(Vars) -> Vars] : \A i, j \in DOMAIN s : s[i] = s[j] => i = j}

PromptTypes == {"PromptTemplate", "HumanMessagePromptTemplate", "FewShotPromptTemplate"}

\* a value supplied for a declared variable: none, a text, or an empty text
PartialValues == {<<"", Absent>>, <<"x", Str(<<"v">>)>>, <<"x", Str(<<>>)>>, <<"y", Str(<<"v">>)>>}

PromptParams(declared, partial) ==
    LET p == [input_variables |-> List([i \in DOMAIN declared |-> Str(<<declared[i]>>)])]
    IN  IF partial[1] = "" THEN p ELSE Put(p, partial[1], partial[2])

\* sourceIds: the node-bound names, each with the id of the node that feeds it
SourceIdsOf(bound) == [k \in bound |-> List(<<Str(<<"n">>)>>)]

PromptCases ==
    { Case([BaseEnv EXCEPT !.hash_order = h],
           Descriptor("prompts", nt, {}, PromptParams(declared, partial), SourceIdsOf(bound))) :
        h \in HashOrders, nt \in PromptTypes, declared \in DeclaredLists,
        partial \in PartialValues, bound \in SUBSET Vars }

InitPrompt == Start(PromptCases)

SpecPrompt == InitPrompt /\ [][Next]_vars

PromptDone == pc = "done" /\ args.base_type = "prompts"

DeclaredVariables ==
    {args.params["input_variables"].v[i].v[1] : i \in DOMAIN args.params["input_variables"].v}

\* the declared names that no supplied, non-empty value has bound
OpenVariables ==
    {x \in DeclaredVariables : ~(x \in DOMAIN args.params /\ Truthy(args.params[x]))}

NodeBound == DOMAIN args.id_dict

\* the variable list of the returned prompt, read on the nested prompt when
\* the prompt has one that owns the list
FinalVariables ==
    LET prompt == result.value.v[1]
    IN  IF prompt.v.kind = "message" THEN prompt.v.nested_variables
        ELSE prompt.v.input_variables

HoldsExactly(list, S) == Range(list) = S /\ Len(list) = Cardinality(S)

HumanBeforeNodeBound(list) ==
    \A i, j \in DOMAIN list : (list[i] \notin NodeBound /\ list[j] \in NodeBound) => i < j

ExampleCase == OpenVariables = {"x", "y", "z"} /\ NodeBound \cap OpenVariables = {"y", "z"}

\* C6 as stated: after instantiate_prompt the final variable list holds exactly
\* the declared variables still open, every human-input variable before every
\* node-bound one, and {x,y,z} with y,z node-bound gives the list [x,y,z].
C6_HumanFirstInDeclaredOrder ==
    PromptDone =>
        /\ result.ok
        /\ HoldsExactly(FinalVariables, OpenVariables)
        /\ HumanBeforeNodeBound(FinalVariables)
        /\ ExampleCase => FinalVariables = <<"x", "y", "z">>

\* C6: after instantiate_prompt the final variable list holds exactly the
\* declared variables still open, every human-input variable before every
\* node-bound one; within each of the two groups the order is the one in which
\* the process lists a set, so {x,y,z} with y,z node-bound gives [x,y,z] or
\* [x,z,y].
C6_HumanFirstInSetOrder ==
    PromptDone =>
        /\ result.ok
        /\ HoldsExactly(FinalVariables, OpenVariables)
        /\ HumanBeforeNodeBound(FinalVariables)
        /\ ExampleCase => FinalVariables \in {<<"x", "y", "z">>, <<"x", "z", "y">>}

C6_Witness ==
    /\ PromptDone
    /\ ExampleCase
    /\ args.params["input_variables"].v = <<Str(<<"x">>), Str(<<"y">>), Str(<<"z">>)>>
    /\ FinalVariables = <<"x", "z", "y">>

----------------------------------------------------------------------------
(* Descriptors of vectorstore nodes *)

MaxKnowledge == 2
MaxCandidates == 2

PermissionChecked == {"MilvusWithPermissionCheck", "ElasticsearchWithPermissionCheck"}

\* the directory: rows 1..MaxKnowledge; odd rows are partitions of a shared
\* collection and have no index name
Directory ==
    [id \in 1..MaxKnowledge |->
        IF id % 2 = 1
        THEN Knowledge(id, <<"partition", IdChars[id]>>, <<>>, <<"m", IdChars[id]>>)
        ELSE Knowledge(id, <<"col", IdChars[id]>>, <<"idx", IdChars[id]>>, <<"m", IdChars[id]>>)]

Caller == Str(<<"u">>)

\* the candidates of a node: distinct directory ids, at most MaxCandidates
CandidateLists ==
    {s \in SeqsUpTo(1..MaxKnowledge, MaxCandidates) : \A i, j \in DOMAIN s : s[i] = s[j] => i = j}

KeysOf(ids) == List([i \in DOMAIN ids |-> Dict([key |-> Num(ids[i])])])

SuppliedEmbedding == Obj([name |-> "Embedding", model |-> <<"own">>])

ColumnOf(node_type) ==
    IF node_type = "ElasticsearchWithPermissionCheck" THEN "index_name" ELSE "collection_name"

PermissionParams(node_type, ids, named, check, embedding) ==
    LET base == [k \in {ColumnOf(node_type)} |-> KeysOf(ids)]
    IN  FromOptions([k \in DOMAIN base \cup {"user_name", "_is_check_auth", "embedding"} |->
                        CASE k = "user_name" -> IF named THEN Caller ELSE Absent
                          [] k = "_is_check_auth" -> check
                          [] k = "embedding" -> embedding
                          [] OTHER -> base[k]])

PermissionCases ==
    { Case([BaseEnv EXCEPT !.knowledge = Directory,
                           !.access = [u \in {Caller} |-> allowed],
                           !.initializers = IF registered THEN PermissionChecked ELSE {}],
           Descriptor("vectorstores", nt, {}, PermissionParams(nt, ids, named, check, embedding),
                      EmptyDict)) :
        allowed \in SUBSET (1..MaxKnowledge), registered \in BOOLEAN, nt \in PermissionChecked,
        ids \in CandidateLists, named \in BOOLEAN,
        check \in {Absent, Bool(TRUE), Bool(FALSE)},
        embedding \in {Absent, SuppliedEmbedding} }

\* stores without a permission check, with and without retrieval settings
OpenStoreCases ==
    { Case([BaseEnv EXCEPT !.file_access = url,
                           !.initializers = IF registered THEN {"Chroma"} ELSE {}],
           Descriptor("vectorstores", "Chroma", methods, p, EmptyDict)) :
        url \in {"", "u"}, registered \in BOOLEAN, methods \in {{}, {"as_retriever"}},
        p \in {[texts |-> List(<<Str(<<"t">>)>>)],
               [documents |-> List(<<>>), search_kwargs |-> Dict([k |-> Num(1)]),
                user_name |-> Caller],
               [search_kwargs |-> Dict(EmptyDict), search_type |-> Str(<<"mmr">>)]} }

VectorCases == PermissionCases \cup OpenStoreCases

InitVectorstore == Start(VectorCases)

SpecVectorstore == InitVectorstore /\ [][Next]_vars

FilteredDone ==
    pc = "done" /\ args.base_type = "vectorstores" /\ args.node_type \in PermissionChecked

Candidates ==
    LET keys == args.params[ColumnOf(args.node_type)].v
    IN  {keys[i].v["key"].v : i \in DOMAIN keys}

UserName == Get(args.params, "user_name", Str(<<>>))

\* the directory rows the caller's identity may access
Accessible ==
    {id \in DOMAIN env.knowledge : UserName \in DOMAIN env.access /\ id \in env.access[UserName]}

CheckSkipped ==
    "_is_check_auth" \in DOMAIN args.params /\ ~Truthy(args.params["_is_check_auth"])

\* the name under which a row is handed to the backend of this node's kind
HandedName(id) ==
    LET row == env.knowledge[id]
    IN  IF args.node_type = "ElasticsearchWithPermissionCheck" /\ row.index_name # <<>>
        THEN row.index_name ELSE row.collection_name

NamesOf(ids) == {HandedName(id) : id \in ids}

Construction == result.calls[1]

\* the collections in the collection parameter handed to construction
Handed ==
    LET col == Construction.kwargs[ColumnOf(args.node_type)].v
    IN  {col[i].v : i \in DOMAIN col}

PermittedNone == Candidates \cap Accessible = {}

\* the directory lookup of lines 489-493 returns no row
NoneResolved ==
    IF CheckSkipped THEN Candidates \cap DOMAIN env.knowledge = {} ELSE PermittedNone

EmptyList == List(<<>>)

----------------------------------------------------------------------------
(* Descriptors of Report nodes *)

MaxReportChains == 2
MaxPairs == 2

\* [targetId, text] pairs; the second has a one-character target id
PairTexts == {<<Str(<<"c", "1">>), Str(<<"h", "i">>)>>, <<Str(<<"c">>), Str(<<"y", "o">>)>>}

\* what preset_question may hold for one chain id: nothing, a single pair given
\* as a tuple or as a list, or a list of at most MaxPairs pairs
PresetValues ==
    {Absent}
    \cup {Tuple(pair) : pair \in PairTexts}
    \cup {List(pair) : pair \in PairTexts}
    \cup {List([i \in DOMAIN pairs |-> List(pairs[i])]) : pairs \in SeqsUpTo(PairTexts, MaxPairs)}

ReportIds(n) == [i \in 1..n |-> NodeId(i)]

ReportParams(n, presets, variables) ==
    LET preset_question == [id \in {NodeId(i) : i \in {j \in 1..n : presets[j] # Absent}} |->
                               presets[CHOOSE i \in 1..n : NodeId(i) = id]]
        p == [chains |-> List([i \in 1..n |-> ChainObj(i)])]
        q == IF \E i \in 1..n : presets[i] # Absent
             THEN Put(p, PRESET_QUESTION, Dict(preset_question)) ELSE p
    IN  IF variables THEN Put(q, "variables", List(<<Str(<<"v">>)>>)) ELSE q

ReportIdDict(n, variables) ==
    LET d == [chains |-> List(ReportIds(n))]
    IN  IF variables THEN Put(d, "variables", List(<<Str(<<"w">>)>>)) ELSE d

\* what the chain ids other than the one under study hold
OtherPresetValues ==
    {Absent, Tuple(<<Str(<<"c", "1">>), Str(<<"h", "i">>)>>),
     List(<<Str(<<"c", "1">>), Str(<<"h", "i">>)>>),
     List(<<List(<<Str(<<"c">>), Str(<<"y", "o">>)>>), List(<<Str(<<"c", "1">>), Str(<<"h", "i">>)>>)>>)}

\* Reports over n chain ids: one id holds any preset value, at any position
ReportCases ==
    UNION { { Case(BaseEnv,
                   Descriptor("input_output", "Report", {},
                              ReportParams(n, [presets EXCEPT ![at] = preset], variables),
                              ReportIdDict(n, variables))) :
                at \in 1..n, preset \in PresetValues,
                presets \in [1..n -> OtherPresetValues], variables \in BOOLEAN } :
            n \in 0..MaxReportChains }

\* the file and text nodes of the same category
FileNodeCases ==
    { Case(BaseEnv, Descriptor("input_output", nt, {}, p, EmptyDict)) :
        nt \in {"InputFileNode", "InputNode"},
        p \in {EmptyDict, [file_path |-> List(<<Str(<<"f">>), Str(<<"n">>)>>)],
               [file_path |-> Str(<<>>)]} }

InputOutputCases == ReportCases \cup FileNodeCases

InitReport == Start(InputOutputCases)

SpecReport == InitReport /\ [][Next]_vars

ReportDone == pc = "done" /\ args.base_type = "input_output" /\ args.node_type = "Report"

ChainIds == args.id_dict["chains"].v

PresetQuestion ==
    IF PRESET_QUESTION \in DOMAIN args.params THEN args.params[PRESET_QUESTION].v ELSE EmptyDict

HasPreset(i) == ChainIds[i] \in DOMAIN PresetQuestion

PresetOf(i) == PresetQuestion[ChainIds[i]]

\* a [targetId, text] pair: two texts
IsPair(x) == x.t \in {"list", "tuple"} /\ Len(x.v) = 2 /\ \A k \in 1..2 : x.v[k].t = "str"

\* a list of k pairs
IsPairList(x) == x.t = "list" /\ \A k \in DOMAIN x.v : IsPair(x.v[k])

ChainAt(i) == args.params["chains"].v[i]

\* the triple (object, node_id, input) for chain i and a pair
TripleOf(i, pair) ==
    Dict([object |-> ChainAt(i), node_id |-> pair.v[1],
          input |-> Dict([k \in {ChainAt(i).v.input_keys[1]} |-> pair.v[2]])])

\* the triple of a chain id without a preset: no node_id, the text 'start'
DefaultTriple(i) ==
    Dict([object |-> ChainAt(i),
          input |-> Dict([k \in {ChainAt(i).v.input_keys[1]} |-> Str(<<"start">>)])])

\* the chain list handed to the Report
Produced == params["chains"].v

TriplesFor(i) == SelectSeq(Produced, LAMBDA triple : triple.v["object"] = ChainAt(i))

\* C9: every chain id whose preset is a single [targetId, text] pair gets
\* exactly one triple, with node_id = targetId and input = {first input key:
\* text}; preset_question = {"n1": ["c1", "hello"]} gives one triple.
C9_SinglePairOneTriple ==
    ReportDone =>
        \A i \in DOMAIN ChainIds :
            (HasPreset(i) /\ IsPair(PresetOf(i))) =>
                /\ result.ok
                /\ TriplesFor(i) = <<TripleOf(i, PresetOf(i))>>

C9_ListPairSplit ==
    /\ ReportDone /\ result.ok
    /\ ChainIds = <<NodeId(1)>> /\ HasPreset(1)
    /\ PresetOf(1) = List(<<Str(<<"c", "1">>), Str(<<"h", "i">>)>>)
    /\ Len(Produced) = 2
    /\ Produced[1].v["node_id"] = Str(<<"c">>)
    /\ Produced[2].v["node_id"] = Str(<<"h">>)

\* the position in the chain id list of the chain a triple refers to
ChainIndexOf(triple) == CHOOSE i \in DOMAIN ChainIds : ChainAt(i) = triple.v["object"]

\* C10: in the chain list a Report is built with, a chain id whose preset is a
\* list of k [targetId, text] pairs has exactly k triples, in list order, all on
\* that id's chain object, the j-th with node_id and input from the j-th pair;
\* an id without a preset has one triple with the input {first input key:
\* "start"} and no node_id; and the triples follow the order of the chain id
\* list.
C10_PairListsInOrder ==
    (ReportDone /\ result.ok) =>
        /\ \A i \in DOMAIN ChainIds :
              (HasPreset(i) /\ IsPairList(PresetOf(i))) =>
                  /\ Len(TriplesFor(i)) = Len(PresetOf(i).v)
                  /\ \A j \in DOMAIN PresetOf(i).v :
                        TriplesFor(i)[j] = TripleOf(i, PresetOf(i).v[j])
        /\ \A i \in DOMAIN ChainIds : ~HasPreset(i) => TriplesFor(i) = <<DefaultTriple(i)>>
        /\ \A a, b \in DOMAIN Produced :
              a < b => ChainIndexOf(Produced[a]) <= ChainIndexOf(Produced[b])
        /\ result.calls[1].kwargs["chains"] = List(Produced)

C10_Witness ==
    /\ ReportDone /\ result.ok
    /\ Len(ChainIds) = 2
    /\ HasPreset(1) /\ IsPairList(PresetOf(1)) /\ Len(PresetOf(1).v) = 2
    /\ PresetOf(1).v[1] # PresetOf(1).v[2]
    /\ ~HasPreset(2)
    /\ Len(Produced) = 3

----------------------------------------------------------------------------
(* Descriptors of document loader and text splitter nodes *)

MaxDocs == 2

FilePaths ==
    {Absent, PyNone, Str(<<>>), Str(<<"p">>), List(<<>>),
     List(<<Str(<<>>), Str(<<"n">>)>>), List(<<Str(<<"p">>), Str(<<"n">>)>>)}

MetadataValues ==
    {Absent, Str(<<>>), Str(<<"{", "}">>), Str(<<"a">>), Str(<<"[", "1", "]">>),
     Dict(EmptyDict), Dict([source |-> Str(<<"m">>)]), Dict([author |-> Str(<<"m">>)])}

FileFilters == {Absent, Str(<<"t">>), Num(1)}

LoaderClasses ==
    {Class("TextLoader", {}), Class("ElemUnstructuredLoaderV0", {}),
     ClassWith("TextLoader", {}, {}, "FileNotFoundError")}

OwnMetadata ==
    {EmptyDict, [source |-> Str(<<"s">>)], [source |-> Str(<<"s">>), page |-> Num(1)]}

\* what load() may return
LoadedDocuments ==
    UNION {[1..n -> {Document(<<"a">>, m) : m \in OwnMetadata}] : n \in 0..MaxDocs}

LoaderCases ==
    { Case([BaseEnv EXCEPT !.documents = docs],
           [base_type |-> "documentloaders", node_type |-> c.name, class_object |-> c,
            params |-> FromOptions([file_path |-> path, metadata |-> metadata,
                                    file_filter |-> filter]),
            id_dict |-> EmptyDict, user_id |-> 1]) :
        path \in FilePaths, metadata \in MetadataValues, filter \in FileFilters,
        c \in LoaderClasses, docs \in LoadedDocuments }

UpstreamDocuments ==
    {Absent, PyNone, List(<<>>), List(<<Document(<<"a">>, EmptyDict)>>)}

SplitterClasses ==
    {Class("CharacterTextSplitter", {"from_language"}),
     ClassWith("CharacterTextSplitter", {"from_language"}, {}, "ValidationError")}

SplitterCases ==
    { Case(BaseEnv,
           [base_type |-> "textsplitters", node_type |-> c.name, class_object |-> c,
            params |-> FromOptions([documents |-> documents, separator_type |-> kind,
                                    separators |-> separators, chunk_size |-> Num(2)]),
            id_dict |-> EmptyDict, user_id |-> 1]) :
        documents \in UpstreamDocuments,
        kind \in {Absent, Str(<<"Text">>), Str(<<"python">>)},
        separators \in {Absent, Str(<<"\\", "n">>), Str(<<"a">>)},
        c \in SplitterClasses }

DocumentCases == LoaderCases \cup SplitterCases

InitDocuments == Start(DocumentCases)

SpecDocuments == InitDocuments /\ [][Next]_vars

LoaderDone == pc = "done" /\ args.base_type = "documentloaders"

\* the empty path as text, the narrowest reading of "empty"
EmptyFilePath == "file_path" \in DOMAIN args.params /\ args.params["file_path"] = Str(<<>>)

\* C11: with an empty file path the document loader returns the empty document
\* list, raises nothing and constructs no loader, whatever file_filter and
\* metadata are.
C11_EmptyPathNoDocuments ==
    (LoaderDone /\ EmptyFilePath) =>
        /\ result.ok
        /\ result.value = List(<<>>)
        /\ result.calls = <<>>

\* an empty path given together with a filter and metadata that decodes
C11_EmptyPathReturnsEmpty ==
    /\ LoaderDone /\ EmptyFilePath
    /\ {"file_filter", "metadata"} \subseteq DOMAIN args.params
    /\ Truthy(args.params["metadata"])
    /\ result.ok /\ result.value = List(<<>>) /\ result.calls = <<>>

SplitterDone == pc = "done" /\ args.base_type = "textsplitters"

NoUpstreamDocuments ==
    "documents" \notin DOMAIN args.params \/ args.params["documents"] = List(<<>>)

MissingInput(error) == error = "ValueError: The source you provided did not load correctly or was empty"

\* C12: with zero upstream documents (documents absent, or the empty list) the
\* text splitter fails with the missing-input error and returns no result.
C12_NoDocumentsFails ==
    (SplitterDone /\ NoUpstreamDocuments) =>
        /\ ~result.ok
        /\ MissingInput(result.error)
        /\ result.value = PyNone

\* the splitter given no documents parameter at all
C12_AbsentDocumentsFail ==
    /\ SplitterDone
    /\ "documents" \notin DOMAIN args.params
    /\ ~result.ok /\ MissingInput(result.error) /\ result.calls = <<>>

\* the metadata handed to the merge: text is decoded first (lines 556-561)
SuppliedMetadata ==
    IF "metadata" \notin DOMAIN args.params THEN PyNone
    ELSE IF args.params["metadata"].t = "str" /\ Truthy(args.params["metadata"])
    THEN JsonLoads(args.params["metadata"].v).val
    ELSE args.params["metadata"]

\* the loader ran and a non-empty dict of metadata was merged into its documents
Merged ==
    /\ LoaderDone /\ result.ok /\ result.calls # <<>>
    /\ SuppliedMetadata.t = "dict" /\ Truthy(SuppliedMetadata)

OwnOf(i) == env.documents[i].v.metadata

MergedOf(i) == result.value.v[i].v.metadata

\* C14: after the merge every key a document already had in its own metadata
\* keeps its original value; the supplied metadata only adds keys the document
\* did not have.
C14_MergeKeepsExisting ==
    Merged =>
        /\ Len(result.value.v) = Len(env.documents)
        /\ \A i \in DOMAIN env.documents :
              /\ DOMAIN MergedOf(i) = DOMAIN OwnOf(i) \cup DOMAIN SuppliedMetadata.v
              /\ \A k \in DOMAIN OwnOf(i) : MergedOf(i)[k] = OwnOf(i)[k]
              /\ \A k \in DOMAIN SuppliedMetadata.v \ DOMAIN OwnOf(i) :
                    MergedOf(i)[k] = SuppliedMetadata.v[k]

\* a document's own value replaced by the supplied one on a shared key
C14_SharedKeyOverwritten ==
    /\ Merged
    /\ \E i \in DOMAIN env.documents : \E k \in DOMAIN OwnOf(i) \cap DOMAIN SuppliedMetadata.v :
          /\ OwnOf(i)[k] # SuppliedMetadata.v[k]
          /\ MergedOf(i)[k] = SuppliedMetadata.v[k]

----------------------------------------------------------------------------
(* instantiate_class: normalise, custom bypass, class resolution, dispatch *)

\* an entry of CUSTOM_NODES: a callable that may have an initialize hook
Registration(name, hook) == Object(name, IF hook THEN {"initialize"} ELSE {}, <<>>)

CUSTOM_NODES ==
    [CustomWithHook |-> Registration("CustomWithHook", TRUE),
     CustomPlain |-> Registration("CustomPlain", FALSE),
     CustomEmpty |-> PyNone]

\* the (category, type) pairs the type resolver knows
FullRegistry ==
    {<<"llms", "ChatOpenAI">>, <<"documentloaders", "TextLoader">>, <<"unknown", "Node">>,
     <<"unknown", "CustomEmpty">>}

ResolutionError == "ResolutionError"

\* import_by_type(_type, name): [ok, error, class]
import_by_type(base_type, name, e) ==
    IF <<base_type, name>> \in e.registry
    THEN [ok |-> TRUE, error |-> "", class |-> Class(name, {})]
    ELSE [ok |-> FALSE, error |-> ResolutionError, class |-> PyNone]

\* line 61-62: the type is registered and its registration is not empty
IsBypass(node_type, e) ==
    node_type \in DOMAIN e.custom_nodes /\ Truthy(e.custom_nodes[node_type])

\* the hook is never looked for
BypassAlwaysCalls(custom_node) == "__call__"

\* lines 63-65: the initialize hook if the registration has one, else the call
BypassHook(custom_node) == IF HasAttr(custom_node, "initialize") THEN "initialize" ELSE "__call__"

ClassTypes ==
    {<<"chains", "CustomWithHook">>, <<"chains", "CustomPlain">>, <<"unknown", "CustomEmpty">>,
     <<"llms", "ChatOpenAI">>, <<"documentloaders", "TextLoader">>, <<"unknown", "Node">>}

ClassKwargs ==
    {Absent, Dict(EmptyDict), Str(<<"{", "}">>), Str(<<"[", "1", "]">>),
     Str(<<Quote, "a", Quote>>), Str(<<"a">>)}

ClassConfigs == {Absent, Str(<<"[", "1", "]">>), Str(<<Quote, "a">>)}

ClassParams ==
    { FromOptions([allowed_special |-> a, input_node |-> i, model_kwargs |-> k, config |-> c,
                   node_id_dict |-> n]) :
        a \in {Absent, List(<<Str(<<"a">>)>>), Num(1)}, i \in {Absent, Str(<<"a">>)},
        k \in ClassKwargs, c \in ClassConfigs, n \in {Absent, Dict(EmptyDict)} }

ClassEnv(registry) ==
    [custom_nodes |-> CUSTOM_NODES, registry |-> registry] @@
    [BaseEnv EXCEPT !.documents = <<Document(<<"a">>, EmptyDict)>>]

ClassCases ==
    { Case(ClassEnv(registry),
           [base_type |-> type[1], node_type |-> type[2], params |-> p, user_id |-> 1]) :
        registry \in {FullRegistry, {}}, type \in ClassTypes, p \in ClassParams }

NotStarted ==
    [ok |-> TRUE, error |-> "", cause |-> "", steps |-> <<>>, calls |-> <<>>, value |-> PyNone,
     id_dict |-> PyNone, class_object |-> PyNone, handed |-> EmptyDict]

InitClass ==
    /\ pc = "ready"
    /\ \E c \in ClassCases : env = c.env /\ args = c.args
    /\ params = args.params
    /\ result = NotStarted

Normalized(r) ==
    /\ params' = r.params
    /\ result' = [result EXCEPT !.ok = r.ok, !.error = r.error, !.id_dict = r.id_dict,
                                !.steps = Append(@, "normalize")]
    /\ pc' = IF r.ok THEN "normalized" ELSE "done"

\* lines 58-60
NormalizeParams ==
    /\ pc = "ready"
    /\ Normalized(Normalize(params))
    /\ UNCHANGED <<env, args>>

Bypassed(c) ==
    result' = [result EXCEPT !.steps = Append(@, c.method), !.calls = <<c>>, !.value = Obj(c),
                             !.handed = params]

\* lines 61-65
CustomBypass ==
    /\ pc = "normalized"
    /\ IsBypass(args.node_type, env)
    /\ Bypassed(Call("custom_node", args.node_type,
                     BypassHook(env.custom_nodes[args.node_type]), params))
    /\ pc' = "done"
    /\ UNCHANGED <<env, args, params>>

Resolved(h) ==
    /\ result' = [result EXCEPT !.ok = h.ok, !.error = h.error, !.class_object = h.class,
                                !.steps = Append(@, "import_by_type")]
    /\ pc' = IF h.ok THEN "resolved" ELSE "done"

\* line 67
ResolveClass ==
    /\ pc = "normalized"
    /\ ~IsBypass(args.node_type, env)
    /\ Resolved(import_by_type(args.base_type, args.node_type, env))
    /\ UNCHANGED <<env, args, params>>

Delivered(r) ==
    /\ params' = r.params
    /\ result' = [result EXCEPT !.ok = r.ok, !.error = r.error, !.cause = r.cause,
                                !.calls = r.calls, !.value = r.value,
                                !.steps = Append(@, "instantiate_based_on_type"),
                                !.handed = params]

\* lines 68-73
DispatchStrategy ==
    /\ pc = "resolved"
    /\ Delivered(instantiate_based_on_type(result.class_object, args.base_type, args.node_type,
                                           params, result.id_dict, args.user_id, env))
    /\ pc' = "done"
    /\ UNCHANGED <<env, args>>

NextClass == NormalizeParams \/ CustomBypass \/ ResolveClass \/ DispatchStrategy

SpecClass == InitClass /\ [][NextClass]_vars

Builders == {"initialize", "__call__", "instantiate_based_on_type"}

\* a builder (a category strategy or a bypass registration) has been invoked
BuilderReached == \E i \in DOMAIN result.steps : result.steps[i] \in Builders

ResolverCalls == {i \in DOMAIN result.steps : result.steps[i] = "import_by_type"}

TextKeys == {k \in DOMAIN args.params : HasKwargsOrConfig(k) /\ args.params[k].t = "str"}

MalformedGiven == \E k \in TextKeys : ~JsonLoads(args.params[k].v).ok

DecodeError == "JSONDecodeError"

BypassType == args.node_type \in DOMAIN env.custom_nodes /\ env.custom_nodes[args.node_type] # PyNone

ExpectedHook ==
    IF "initialize" \in env.custom_nodes[args.node_type].v.attrs THEN "initialize" ELSE "__call__"

Resolvable == <<args.base_type, args.node_type>> \in env.registry

StrategyCalls == {i \in DOMAIN result.steps : result.steps[i] = "instantiate_based_on_type"}

\* C15: the steps run in the order normalise, bypass check, class resolution,
\* strategy dispatch. For a bypass registration the initialize hook is invoked
\* if present, else the registration itself, its result is returned and
\* neither the resolver nor a strategy is invoked; otherwise the resolver is
\* invoked exactly once and its failure propagates before any strategy runs.
C15_StepOrder ==
    /\ Len(result.steps) <= 3
    /\ result.steps # <<>> => result.steps[1] = "normalize"
    /\ (pc = "done" /\ Normalize(args.params).ok) => Len(result.steps) >= 2
    /\ Len(result.steps) >= 2 =>
          IF BypassType
          THEN /\ pc = "done" /\ result.ok
               /\ result.steps = <<"normalize", ExpectedHook>>
               /\ Len(result.calls) = 1
               /\ result.calls[1].method = ExpectedHook
               /\ result.calls[1].kwargs = params
               /\ result.value = Obj(result.calls[1])
               /\ ResolverCalls = {} /\ StrategyCalls = {}
          ELSE /\ result.steps[2] = "import_by_type"
               /\ Cardinality(ResolverCalls) = 1
               /\ IF Resolvable
                  THEN pc = "done" => result.steps = <<"normalize", "import_by_type",
                                                       "instantiate_based_on_type">>
                  ELSE /\ pc = "done" /\ ~result.ok
                       /\ result.error = ResolutionError
                       /\ result.steps = <<"normalize", "import_by_type">>
                       /\ result.calls = <<>>

\* a registration with an initialize hook, built although the resolver does not
\* know the type
C15_Witness ==
    /\ pc = "done"
    /\ BypassType /\ ExpectedHook = "initialize" /\ ~Resolvable
    /\ result.ok /\ result.steps = <<"normalize", "initialize">>
    /\ "model_kwargs" \in DOMAIN params

----------------------------------------------------------------------------
(* Construction failures *)

ConstructionFailures ==
    {"object has no attribute 'cursor'", "object has no field \"conn\"", "connection refused",
     ValidationError}

FailingPrompts ==
    { Case(BaseEnv, Descriptor("prompts", nt, {}, PromptParams(<<"x">>, partial), SourceIdsOf({}))) :
        nt \in PromptTypes, partial \in PartialValues }

\* every category, with a class whose construction raises, and the embeddings
\* as they are
FailureCases ==
    { [c EXCEPT !.args.class_object.raises = x] : c \in DispatchCases, x \in ConstructionFailures }
    \cup {c \in DispatchCases : c.args.base_type = "embeddings"}
    \cup { [c EXCEPT !.args.class_object.raises = x] :
               c \in OpenStoreCases \cup FileNodeCases \cup FailingPrompts,
               x \in ConstructionFailures }

InitFailures == Start(FailureCases)

SpecFailures == InitFailures /\ [][Next]_vars

\* the calls that construct the node's class, by its constructor or a method
ClassCalls ==
    {i \in DOMAIN result.calls :
        /\ result.calls[i].fn \in {"class_object", "class_method"}
        /\ result.calls[i].cls = args.class_object.name}

\* the class rejects the parameters of call i as undeclared
Undeclared(i) ==
    /\ args.class_object.fields # {}
    /\ ~(DOMAIN result.calls[i].kwargs \subseteq args.class_object.fields)

\* a construction of the node's class was attempted and raised
ConstructionFailed ==
    /\ pc = "done" /\ ClassCalls # {}
    /\ \/ args.class_object.raises # ""
       \/ args.base_type = "embeddings" /\ \E i \in ClassCalls : Undeclared(i)

RaisedError == IF args.class_object.raises # "" THEN args.class_object.raises ELSE ValidationError

KnownConnectionFailure ==
    args.base_type = "memory"
    /\ RaisedError \in {"object has no attribute 'cursor'", "object has no field \"conn\""}

Relabeled == ~result.ok /\ result.error = ConnectionError /\ result.cause = RaisedError

PropagatedUnchanged == ~result.ok /\ result.error = RaisedError /\ result.cause = ""

\* C16 (as stated): a construction failure reaches the caller unchanged in every
\* strategy, except that the memory strategy re-labels a known connection or
\* cursor failure into the connection error that carries the original as its
\* cause; any other memory failure keeps its type and message.
C16_OnlyMemoryRelabels ==
    ConstructionFailed => IF KnownConnectionFailure THEN Relabeled ELSE PropagatedUnchanged

\* the embeddings strategy answering the ValidationError of its construction
Retried == args.base_type = "embeddings" /\ Len(result.calls) = 2 /\ RaisedError = ValidationError

\* C16 (amended): as stated for every strategy but embeddings; there a
\* ValidationError of the construction does not reach the caller: the class is
\* constructed a second time over the parameters it declares, and the caller
\* gets that construction's product or failure; any other embeddings failure
\* propagates unchanged.
C16_RelabelOrRetry ==
    ConstructionFailed =>
        IF KnownConnectionFailure THEN Relabeled
        ELSE IF args.base_type = "embeddings" /\ RaisedError = ValidationError
        THEN /\ Len(result.calls) = 2
             /\ DOMAIN result.calls[2].kwargs =
                    DOMAIN result.calls[1].kwargs \cap args.class_object.fields
             /\ IF args.class_object.raises = "" THEN result.ok /\ result.value = Obj(result.calls[2])
                ELSE PropagatedUnchanged
        ELSE PropagatedUnchanged

\* a memory class whose construction fails for want of a cursor
C16_Witness ==
    /\ ConstructionFailed /\ KnownConnectionFailure
    /\ args.class_object.raises = "object has no attribute 'cursor'"
    /\ Relabeled
    /\ Len(result.calls) = 1

----------------------------------------------------------------------------
(* The rewritten Milvus parameters *)

MilvusDone == FilteredDone /\ args.node_type = "MilvusWithPermissionCheck"

\* the rows the directory lookup of lines 489-493 returns for the node, in the
\* order of the directory
PermittedIds ==
    IF CheckSkipped THEN Candidates \cap DOMAIN env.knowledge ELSE Candidates \cap Accessible

PermittedRows == [i \in 1..Cardinality(PermittedIds) |-> env.knowledge[Ascending(PermittedIds)[i]]]

Rewritten(key) == Construction.kwargs[key].v

IsPartition(row) == Len(row.collection_name) > 0 /\ row.collection_name[1] = "partition"

\* C17: for MilvusWithPermissionCheck collection_name, collection_embeddings
\* and partition_keys have the length of the permitted list and entry i of each
\* describes permitted collection i, the partition key being the collection's id
\* exactly when its name starts with 'partition' and None otherwise; embedding
\* is collection_embeddings[0] whenever that list is not empty.
C17_MilvusParamsAligned ==
    MilvusDone =>
        /\ result.ok /\ Len(result.calls) = 1
        /\ Len(Rewritten("collection_name")) = Len(PermittedRows)
        /\ Len(Rewritten("collection_embeddings")) = Len(PermittedRows)
        /\ Len(Rewritten("partition_keys")) = Len(PermittedRows)
        /\ \A i \in DOMAIN PermittedRows :
              /\ Rewritten("collection_name")[i] = Str(PermittedRows[i].collection_name)
              /\ Rewritten("collection_embeddings")[i] = decide_embeddings(PermittedRows[i].model)
              /\ Rewritten("partition_keys")[i] =
                    IF IsPartition(PermittedRows[i]) THEN Num(PermittedRows[i].id) ELSE PyNone
        /\ Rewritten("collection_embeddings") # <<>> =>
              Construction.kwargs["embedding"] = Rewritten("collection_embeddings")[1]

\* a permitted list that mixes a partition, first, with a collection that is
\* not one, on a node that supplied its own embedding
C17_Witness ==
    /\ MilvusDone /\ result.ok
    /\ Len(PermittedRows) >= 2
    /\ \E i, j \in DOMAIN PermittedRows :
          /\ i < j
          /\ Rewritten("partition_keys")[i] # PyNone
          /\ Rewritten("partition_keys")[j] = PyNone
    /\ "embedding" \in DOMAIN args.params
    /\ Construction.kwargs["embedding"] # args.params["embedding"]

====
